---- MODULE Spec2Model ----
(***************************************************************************)
(* The auth service.  The password-reset use case (RequestPasswordReset,   *)
(* ResetPassword, ValidatePasswordResetToken) with the password_reset_     *)
(* tokens and users collections, the mailer and the clock (Spec, and       *)
(* SpecFaults where a store call can fail); Register and Login with the    *)
(* identities and sessions collections (SpecAuth); one caller running the  *)
(* end-to-end scenario (SpecScenario); the JWT authenticator and the gRPC  *)
(* interceptor in front of the handlers (SpecGate).  One worker runs each  *)
(* call; a call takes one step per store or mailer operation and per clock *)
(* read, and the steps of different calls interleave.                      *)
(***************************************************************************)
EXTENDS Integers, FiniteSets, Sequences, TLC

(* ------------------------------ bounds -------------------------------- *)

\* Registered users; user u is registered with the email u.
NumUsers == 2
\* Values generateJTI can return.
NumJTIs == 2
\* New passwords a caller can choose; password 0 is the one set at registration.
NumPasswords == 1
\* Calls made in one behaviour.
MaxCalls == 3
\* The clock runs from 0 to MaxClock.
MaxClock == 2
\* Register and Login calls made in one behaviour, MaxCalls at most.
MaxAuthCalls == 2
\* Calls made in one behaviour whose callers can cancel, MaxCalls at most.
MaxCancelCalls == 2

\* authServiceCfg.Token.PasswordResetTokenExpiresIn, in clock ticks.
PasswordResetTokenExpiresIn == 1

Users == 1..NumUsers
\* One email more than there are users: the last one matches no user.
Emails == 1..(NumUsers + 1)
JTIs == 1..NumJTIs
Passwords == 1..NumPasswords
Calls == 1..MaxCalls
AuthCalls == 1..MaxAuthCalls
CancelCalls == 1..MaxCancelCalls

(* ------------------------------ values -------------------------------- *)

\* mongo.ErrNoDocuments of FindOne on the users collection.
NoUser == [email |-> 0, passwordHash |-> <<"none">>]
\* mongo.ErrNoDocuments of FindOne on the password_reset_tokens collection.
NoToken == [id |-> 0, userID |-> 0, used |-> FALSE, expiresAt |-> 0]

\* The errors of the use case; "ok" is a nil error.
ErrTokenNotFound == "ErrTokenNotFound"
ErrTokenAlreadyUsed == "ErrTokenAlreadyUsed"
ErrTokenExpired == "ErrTokenExpired"
\* Any other error handed up from a collaborator (a duplicate key, a missing user).
ErrInternal == "ErrInternal"
\* context.Canceled, handed up by a store call made under a context that is done.
ErrCanceled == "context canceled"
\* The errors of Login and Register.
ErrUserAlreadyExists == "ErrUserAlreadyExists"
ErrInvalidCredentials == "ErrInvalidCredentials"

\* authServiceCfg.Token: the secrets, the session tokens' lifetimes in clock
\* ticks, and the issuer, which is the audience as well.
AccessTokenSecret == "access-secret"
RefreshTokenSecret == "refresh-secret"
PasswordResetTokenSecret == "reset-secret"
AccessTokenExpiresIn == 1
RefreshTokenExpiresIn == 2
Issuer == "issuer"

\* A registered claim the token does not carry.
Absent == -1
\* The claims of no token.
NoClaims ==
    [userID |-> 0, sessionID |-> 0, jti |-> 0, iat |-> Absent, exp |-> Absent,
     nbf |-> Absent, iss |-> "absent", aud |-> {}]
\* The empty token string of a session record that has not been stamped.
NoJWT == [alg |-> "", key |-> "", claims |-> NoClaims]
\* The nil *authtypes.Tokens.
NoTokens == [accessToken |-> NoJWT, refreshToken |-> NoJWT]

VARIABLES
    clock,      \* time.Now()
    users,      \* the users collection: user id -> record, NoUser when absent
    tokens,     \* the password_reset_tokens collection, keyed by its unique jti index
    nextID,     \* the next _id InsertOne gives a token record
    outbox,     \* the emails the mailer has sent
    calls,      \* per call: the operation, its position, arguments, locals, context
                \* and result
    sessions,   \* the sessions collection, in the order of insertion
    identities, \* the identities collection, in the order of insertion
    trace,      \* the calls that have returned to a sequential caller, in order
    gate        \* the interceptor: its construction and the call it last handled

vars == <<clock, users, tokens, nextID, outbox, calls, sessions, identities, trace, gate>>

\* A call that has not been made.
IdleCall ==
    [op |-> "none", pc |-> "idle", email |-> 0, jti |-> 0, pw |-> 0,
     user |-> 0, snap |-> NoToken, jwtExp |-> 0, result |-> "none",
     updated |-> FALSE, created |-> NoToken, prior |-> {},
     sid |-> 0, accessToken |-> NoJWT, refreshToken |-> NoJWT, out |-> NoTokens,
     ctx |-> "live"]

(* ------------------------ the stores' operations ----------------------- *)

\* security.HashPassword: a salted hash, kept as the password it verifies.
HashPassword(pw) == <<"hash", pw>>

\* userMongoRepository.GetUserByEmail: the id of the user with that email, 0 if none.
GetUserByEmail(us, email) ==
    IF \E u \in Users : us[u] # NoUser /\ us[u].email = email
    THEN CHOOSE u \in Users : us[u] # NoUser /\ us[u].email = email
    ELSE 0

\* The bug of an update that writes nothing.
UpdateUserNoop(us, id, passwordHash) == us

\* userMongoRepository.UpdateUser with PasswordHash set: FindOneAndUpdate by _id.
UpdateUser(us, id, passwordHash) ==
    IF id \in Users /\ us[id] # NoUser
    THEN [us EXCEPT ![id].passwordHash = passwordHash]
    ELSE us

\* passwordResetTokenMongoRepository.GetTokenByJTI: FindOne {jti}.
GetTokenByJTI(toks, jti) == toks[jti]

\* The bug of an update that matches no record.
MarkTokenAsUsedNoop(toks, jti) == toks

\* The bug of an update that flips the flag instead of setting it.
MarkTokenAsUsedToggles(toks, jti) ==
    IF toks[jti] # NoToken THEN [toks EXCEPT ![jti].used = ~toks[jti].used] ELSE toks

\* passwordResetTokenMongoRepository.MarkTokenAsUsed: UpdateOne {jti}, $set used.
\* The filter names the jti alone and the UpdateResult is dropped.
MarkTokenAsUsed(toks, jti) ==
    IF toks[jti] # NoToken THEN [toks EXCEPT ![jti].used = TRUE] ELSE toks

\* The bug of an invalidation whose filter leaves the user out.
InvalidateAllTokens(toks, userID) ==
    [j \in JTIs |->
        IF toks[j] # NoToken /\ ~toks[j].used
        THEN [toks[j] EXCEPT !.used = TRUE]
        ELSE toks[j]]

\* The bug of an invalidation that matches no record.
InvalidateNoTokens(toks, userID) == toks

\* passwordResetTokenMongoRepository.InvalidateUserTokens:
\* UpdateMany {user_id, used: false}, $set used.
InvalidateUserTokens(toks, userID) ==
    [j \in JTIs |->
        IF toks[j] # NoToken /\ toks[j].userID = userID /\ ~toks[j].used
        THEN [toks[j] EXCEPT !.used = TRUE]
        ELSE toks[j]]

\* The bug of a password_reset_tokens collection without the unique index.
NoUniqueJTIIndex(toks, jti) == FALSE

\* The unique index on jti: InsertOne of a second record with the jti fails
\* with a duplicate-key error.
DuplicateJTI(toks, jti) == toks[jti] # NoToken

\* passwordResetTokenMongoRepository.DeleteExpiredTokens:
\* DeleteMany {expires_at: {$lt: now}}; the TTL index on expires_at does the same.
DeleteExpiredTokens(toks, now) ==
    [j \in JTIs |->
        IF toks[j] # NoToken /\ toks[j].expiresAt < now THEN NoToken ELSE toks[j]]

\* security.VerifyPassword: the password is the one the hash was made of.
VerifyPassword(pw, passwordHash) == passwordHash = HashPassword(pw)

\* The _id InsertOne gives the next user record; 0 when the bound is reached.
FreeUserID(us) ==
    IF \E u \in Users : us[u] = NoUser
    THEN CHOOSE u \in Users : us[u] = NoUser /\ \A v \in Users : v < u => us[v] # NoUser
    ELSE 0

\* The bug of a users collection without the unique index.
NoUniqueIndex(us, email) == FALSE

\* The unique index on email: InsertOne of a second record with the email
\* fails with a duplicate-key error.
DuplicateKey(us, email) == \E u \in Users : us[u] # NoUser /\ us[u].email = email

\* userMongoRepository.CreateUser: InsertOne; the caller has seen that the
\* unique email index admits the record.
CreateUser(us, email, passwordHash) ==
    [us EXCEPT ![FreeUserID(us)] = [email |-> email, passwordHash |-> passwordHash]]

\* identityMongoRepository.CreateIdentity: InsertOne.
CreateIdentity(ids, userID, email) ==
    Append(ids, [userID |-> userID, provider |-> "email", email |-> email,
                 lastLoginAt |-> Absent])

\* The bug of an update that writes nothing.
UpdateLastLoginNoop(ids, userID, now) == ids

\* identityMongoRepository.UpdateLastLogin: UpdateOne {user_id}, the first match.
UpdateLastLogin(ids, userID, now) ==
    IF \E i \in 1..Len(ids) : ids[i].userID = userID
    THEN LET i == CHOOSE k \in 1..Len(ids) :
                     /\ ids[k].userID = userID
                     /\ \A m \in 1..(k - 1) : ids[m].userID # userID
         IN  [ids EXCEPT ![i].lastLoginAt = now]
    ELSE ids

\* The bug of an insert that hands back an identifier and stores nothing.
CreateSessionNoInsert(ss, userID) == ss

\* sessionMongoRepository.CreateSession: InsertOne of a session with empty
\* token fields; the record's _id is its place in the collection.
CreateSession(ss, userID) ==
    Append(ss, [id |-> Len(ss) + 1, userID |-> userID,
                accessToken |-> NoJWT, refreshToken |-> NoJWT,
                accessTokenExpiresAt |-> Absent, refreshTokenExpiresAt |-> Absent])

\* The bug of an update that matches the owner's sessions, not the one _id.
UpdateTokensByUser(ss, id, params) ==
    [i \in 1..Len(ss) |->
        IF id \in 1..Len(ss) /\ ss[i].userID = ss[id].userID
        THEN [ss[i] EXCEPT !.accessToken = params.accessToken,
                           !.refreshToken = params.refreshToken,
                           !.accessTokenExpiresAt = params.accessTokenExpiresAt,
                           !.refreshTokenExpiresAt = params.refreshTokenExpiresAt]
        ELSE ss[i]]

\* sessionMongoRepository.UpdateTokens: FindOneAndUpdate {_id}, $set params.
UpdateTokens(ss, id, params) ==
    IF id \in 1..Len(ss)
    THEN [ss EXCEPT ![id].accessToken = params.accessToken,
                    ![id].refreshToken = params.refreshToken,
                    ![id].accessTokenExpiresAt = params.accessTokenExpiresAt,
                    ![id].refreshTokenExpiresAt = params.refreshTokenExpiresAt]
    ELSE ss

(* --------------------------- the authenticator -------------------------- *)

\* JWTAuthenticator.GenerateToken: the claims, signed with HS256 under secret.
GenerateToken(claims, secret) == [alg |-> "HS256", key |-> secret, claims |-> claims]

\* authUsecase.generateToken: the session claims, minted at now.
generateToken(userID, sessionID, secret, expiresIn, now) ==
    GenerateToken([userID |-> userID, sessionID |-> sessionID, jti |-> 0,
                   iat |-> now, exp |-> now + expiresIn, nbf |-> now,
                   iss |-> Issuer, aud |-> {Issuer}], secret)

\* A token string as the parser sees it: lead spaces before the token text.
\* jwt.Parser reads a JWT off a string that is exactly three base64 segments.
ParseToken(tokenString) ==
    IF tokenString.lead = 0 /\ tokenString.token.alg # "" THEN tokenString.token
    ELSE NoJWT

\* The key function handed to jwt.ParseWithClaims: HMAC methods only.
KeyFuncAccepts(alg) == alg \in {"HS256", "HS384", "HS512"}

\* jwt.WithValidMethods([]string{jwt.SigningMethodHS256.Name}).
ValidMethods == {"HS256"}

\* The bug of reading the claims without verifying the signature.
ValidateTokenUnverified(tokenString, secret, now) ==
    LET t == ParseToken(tokenString) IN
    /\ t # NoJWT
    /\ t.alg \in {"HS256"}
    /\ t.claims.exp # Absent /\ now < t.claims.exp
    /\ t.claims.nbf = Absent \/ now >= t.claims.nbf
    /\ Issuer \in t.claims.aud
    /\ t.claims.iss = Issuer

\* The bug of leaving WithValidMethods out: every HMAC method passes.
ValidateTokenAnyHMAC(tokenString, secret, now) ==
    LET t == ParseToken(tokenString) IN
    /\ t # NoJWT
    /\ KeyFuncAccepts(t.alg)
    /\ t.key = secret
    /\ t.claims.exp # Absent /\ now < t.claims.exp
    /\ t.claims.nbf = Absent \/ now >= t.claims.nbf
    /\ Issuer \in t.claims.aud
    /\ t.claims.iss = Issuer

\* JWTAuthenticator.ValidateTokenWithClaims: TRUE when err is nil.  The parser
\* refuses a method outside ValidMethods, the key function a non-HMAC method,
\* the signature check a token not signed under secret; the validator wants
\* an expiry after now (WithExpirationRequired), a not-before, if the token
\* has one, at or before now, the audience (WithAudience) and the issuer
\* (WithIssuer).
ValidateTokenWithClaims(tokenString, secret, now) ==
    LET t == ParseToken(tokenString) IN
    /\ t # NoJWT
    /\ t.alg \in ValidMethods
    /\ KeyFuncAccepts(t.alg)
    /\ t.key = secret
    /\ t.claims.exp # Absent /\ now < t.claims.exp
    /\ t.claims.nbf = Absent \/ now >= t.claims.nbf
    /\ Issuer \in t.claims.aud
    /\ t.claims.iss = Issuer

(* ------------------------ the interceptor (Gate) ------------------------ *)

\* info.FullMethod of the calls the Gate sees.
LoginMethod == "/auth.v1.AuthService/Login"
ResetPasswordMethod == "/auth.v1.AuthService/ResetPassword"
ValidatePasswordResetTokenMethod == "/auth.v1.AuthService/ValidatePasswordResetToken"
OrdinaryMethod == "/user.v1.UserService/GetUser"
Methods ==
    {LoginMethod, ResetPasswordMethod, ValidatePasswordResetTokenMethod, OrdinaryMethod}

\* The key the Gate attaches the claims under.
UserClaimsKey == "UserClaimsKey"

\* An Authorization value: the text before the first space run, the number
\* of spaces that follow it, and the token text after them.
\* strings.SplitN(authHeader, " ", 2): one part when there is no space; else
\* the text before the first space and everything after it, further spaces
\* included.
SplitN(authHeader) ==
    IF authHeader.spaces = 0
    THEN <<authHeader.scheme>>
    ELSE <<authHeader.scheme,
           [lead |-> authHeader.spaces - 1, token |-> authHeader.token]>>

\* strings.ToLower on the scheme word.
ToLower(word) ==
    CASE word \in {"Bearer", "BEARER", "bearer", "bEaReR"} -> "bearer"
      [] word \in {"Basic", "basic"} -> "basic"
      [] OTHER -> word

\* The bug of exempting no method.
ExemptNone(exemptMap, method) == FALSE

\* exemptMap[info.FullMethod].
Exempt(exemptMap, method) == method \in exemptMap

\* The bug of handing the handler the context as it came.
WithoutValue(ctx, claims) == ctx

\* context.WithValue(ctx, UserClaimsKey, claims): the context as it came, with
\* the claims under the one key.
WithValue(ctx, claims) == [ctx EXCEPT !.claims = <<claims>>]

\* NewJWTInterceptor: the closure over secret and exemptMap, no call handled.
NewJWTInterceptor(secret, exemptMethods) ==
    [secret |-> secret, exemptMap |-> exemptMethods,
     method |-> "none", md |-> <<>>, ctx |-> [values |-> 0, claims |-> <<>>],
     req |-> 0,
     status |-> "none", handler |-> <<>>, auth |-> <<>>]

\* The bug of reading the token off any Authorization value, whatever its form.
extractAnyForm(md, secret, now) ==
    IF Len(md) = 0
    THEN [err |-> "missing authorization header", claims |-> NoClaims, auth |-> <<>>]
    ELSE LET tokenString == [lead |-> 0, token |-> md[1].token]
             ok == ValidateTokenWithClaims(tokenString, secret, now)
         IN  [err |-> IF ok THEN "nil" ELSE "invalid token",
              claims |-> IF ok THEN ParseToken(tokenString).claims ELSE NoClaims,
              auth |-> <<[tokenString |-> tokenString, secret |-> secret,
                          now |-> now, ok |-> ok]>>]

\* The bug of a Gate that looks the token's owner up and refuses the token
\* once the owner's password is no longer the one of registration.
extractAndCheckUser(md, secret, now) ==
    IF Len(md) = 0
    THEN [err |-> "missing authorization header", claims |-> NoClaims, auth |-> <<>>]
    ELSE LET parts == SplitN(md[1]) IN
         IF Len(parts) # 2 \/ ToLower(parts[1]) # "bearer"
         THEN [err |-> "invalid authorization header format", claims |-> NoClaims,
               auth |-> <<>>]
         ELSE LET ok == /\ ValidateTokenWithClaims(parts[2], secret, now)
                        /\ users[ParseToken(parts[2]).claims.userID].passwordHash
                              = HashPassword(0)
              IN
              [err |-> IF ok THEN "nil" ELSE "invalid token",
               claims |-> IF ok THEN ParseToken(parts[2]).claims ELSE NoClaims,
               auth |-> <<[tokenString |-> parts[2], secret |-> secret,
                           now |-> now, ok |-> ok]>>]

\* extractAndValidateJWT: the error or the claims, and the call made to the
\* authenticator, if any.
extractAndValidateJWT(md, secret, now) ==
    IF Len(md) = 0
    THEN [err |-> "missing authorization header", claims |-> NoClaims, auth |-> <<>>]
    ELSE LET parts == SplitN(md[1]) IN
         IF Len(parts) # 2 \/ ToLower(parts[1]) # "bearer"
         THEN [err |-> "invalid authorization header format", claims |-> NoClaims,
               auth |-> <<>>]
         ELSE LET ok == ValidateTokenWithClaims(parts[2], secret, now) IN
              [err |-> IF ok THEN "nil" ELSE "invalid token",
               claims |-> IF ok THEN ParseToken(parts[2]).claims ELSE NoClaims,
               auth |-> <<[tokenString |-> parts[2], secret |-> secret,
                           now |-> now, ok |-> ok]>>]

(* ---------------------- the use case's decisions ----------------------- *)

\* The bug of leaving the expiry check out.
ResetPasswordStatusNoExpiry(tok, now) ==
    IF tok = NoToken THEN ErrTokenNotFound
    ELSE IF tok.used THEN ErrTokenAlreadyUsed
    ELSE "ok"

\* The bug of answering for a used token as for one that is not there.
ResetPasswordStatusUsedNotFound(tok, now) ==
    IF tok = NoToken \/ tok.used THEN ErrTokenNotFound
    ELSE IF now > tok.expiresAt THEN ErrTokenExpired
    ELSE "ok"

\* ResetPassword, from the token read to the expiry check.
ResetPasswordStatus(tok, now) ==
    IF tok = NoToken THEN ErrTokenNotFound
    ELSE IF tok.used THEN ErrTokenAlreadyUsed
    ELSE IF now > tok.expiresAt THEN ErrTokenExpired
    ELSE "ok"

\* The bug of testing the expiry before the used flag.
ValidateStatusExpiryFirst(tok, now) ==
    IF tok = NoToken THEN ErrTokenNotFound
    ELSE IF now > tok.expiresAt THEN ErrTokenExpired
    ELSE IF tok.used THEN ErrTokenAlreadyUsed
    ELSE "ok"

\* ValidatePasswordResetToken, from the token read to its return.
ValidateStatus(tok, now) ==
    IF tok = NoToken THEN ErrTokenNotFound
    ELSE IF tok.used THEN ErrTokenAlreadyUsed
    ELSE IF now > tok.expiresAt THEN ErrTokenExpired
    ELSE "ok"

(* ------------------------------- Init --------------------------------- *)

\* The session record that Register left for user u at time 0.
RegisteredSession(u) ==
    UpdateTokens(
        <<[id |-> 1, userID |-> u, accessToken |-> NoJWT, refreshToken |-> NoJWT,
           accessTokenExpiresAt |-> Absent, refreshTokenExpiresAt |-> Absent]>>, 1,
        [accessToken |-> generateToken(u, u, AccessTokenSecret, AccessTokenExpiresIn, 0),
         refreshToken |-> generateToken(u, u, RefreshTokenSecret, RefreshTokenExpiresIn, 0),
         accessTokenExpiresAt |-> AccessTokenExpiresIn,
         refreshTokenExpiresAt |-> RefreshTokenExpiresIn])[1]

\* The stores after the users have registered, user u with the email u and the
\* password 0 and with the session u: no reset token, no mail.
Init ==
    /\ clock = 0
    /\ users = [u \in Users |-> [email |-> u, passwordHash |-> HashPassword(0)]]
    /\ tokens = [j \in JTIs |-> NoToken]
    /\ nextID = 1
    /\ outbox = {}
    /\ calls = [c \in Calls |-> IdleCall]
    /\ sessions = [u \in Users |-> [RegisteredSession(u) EXCEPT !.id = u]]
    /\ identities = [u \in Users |->
                        [userID |-> u, provider |-> "email", email |-> u,
                         lastLoginAt |-> Absent]]
    /\ trace = <<>>
    /\ gate = NewJWTInterceptor(AccessTokenSecret, {LoginMethod})

\* The ids of the unused reset-token records of user u.
UnusedIDs(toks, u) ==
    {toks[j].id : j \in {k \in JTIs : toks[k] # NoToken /\ toks[k].userID = u
                                       /\ ~toks[k].used}}

\* Calls are made in the order of their numbers.
CanStart(c) ==
    /\ calls[c].op = "none"
    /\ \A d \in Calls : d < c => calls[d].op # "none"


(* ----------------------- RequestPasswordReset -------------------------- *)

\* The bug of handing the store's not-found up to the caller.
UnknownEmailNotFound == "ErrUserNotFound"

\* What RequestPasswordReset returns when GetUserByEmail finds no user.
UnknownEmailResult == "ok"

\* The call starts: GetUserByEmail, and the return for an unknown email.
RequestPasswordReset_GetUser(c, email) ==
    /\ CanStart(c)
    /\ LET u == GetUserByEmail(users, email) IN
       calls' = [calls EXCEPT ![c] =
                    [IdleCall EXCEPT !.op = "request", !.email = email, !.user = u,
                                     !.prior = UnusedIDs(tokens, u),
                                     !.pc = IF u = 0 THEN "done" ELSE "invalidate",
                                     !.result = IF u = 0 THEN UnknownEmailResult
                                                ELSE "none"]]
    /\ UNCHANGED <<clock, users, tokens, nextID, outbox>>
    /\ UNCHANGED <<sessions, identities, trace, gate>>

\* tokenRepo.InvalidateUserTokens(user.ID).
RequestPasswordReset_Invalidate(c) ==
    /\ calls[c].op = "request" /\ calls[c].pc = "invalidate"
    /\ tokens' = InvalidateUserTokens(tokens, calls[c].user)
    /\ calls' = [calls EXCEPT ![c].pc = "generate"]
    /\ UNCHANGED <<clock, users, nextID, outbox>>
    /\ UNCHANGED <<sessions, identities, trace, gate>>

\* generatePasswordResetToken: generateJTI draws the jti, the signed token's
\* expiry is read off the clock now.
RequestPasswordReset_Generate(c) ==
    /\ calls[c].op = "request" /\ calls[c].pc = "generate"
    /\ \E j \in JTIs :
          calls' = [calls EXCEPT ![c].jti = j,
                                 ![c].jwtExp = clock + PasswordResetTokenExpiresIn,
                                 ![c].pc = "create"]
    /\ UNCHANGED <<clock, users, tokens, nextID, outbox>>
    /\ UNCHANGED <<sessions, identities, trace, gate>>

\* The bug of a record that expires at the time it is built.
NewTokenNoLifetime(id, userID, now) ==
    [id |-> id, userID |-> userID, used |-> FALSE, expiresAt |-> now]

\* The record handed to CreateToken and what InsertOne makes of it.
NewToken(id, userID, now) ==
    [id |-> id, userID |-> userID, used |-> FALSE,
     expiresAt |-> now + PasswordResetTokenExpiresIn]

\* tokenRepo.CreateToken: the record's expiry is read off the clock now; the
\* unique jti index refuses a jti that a record holds.
RequestPasswordReset_Create(c) ==
    /\ calls[c].op = "request" /\ calls[c].pc = "create"
    /\ IF DuplicateJTI(tokens, calls[c].jti)
       THEN /\ calls' = [calls EXCEPT ![c].pc = "done", ![c].result = ErrInternal]
            /\ UNCHANGED <<tokens, nextID>>
       ELSE /\ tokens' = [tokens EXCEPT ![calls[c].jti] =
                              NewToken(nextID, calls[c].user, clock)]
            /\ nextID' = nextID + 1
            /\ calls' = [calls EXCEPT ![c].pc = "send",
                                       ![c].created = NewToken(nextID, calls[c].user, clock)]
    /\ UNCHANGED <<clock, users, outbox>>
    /\ UNCHANGED <<sessions, identities, trace, gate>>

\* mailer.SendHTML with the reset link, and the return.
RequestPasswordReset_Send(c) ==
    /\ calls[c].op = "request" /\ calls[c].pc = "send"
    /\ outbox' = outbox \cup {[to |-> users[calls[c].user].email,
                               jti |-> calls[c].jti, exp |-> calls[c].jwtExp]}
    /\ calls' = [calls EXCEPT ![c].pc = "done", ![c].result = "ok"]
    /\ UNCHANGED <<clock, users, tokens, nextID>>
    /\ UNCHANGED <<sessions, identities, trace, gate>>

(* --------------------------- ResetPassword ----------------------------- *)

\* The call starts: tokenRepo.GetTokenByJTI.
ResetPassword_GetToken(c, jti, pw) ==
    /\ CanStart(c)
    /\ calls' = [calls EXCEPT ![c] =
                    [IdleCall EXCEPT !.op = "reset", !.jti = jti, !.pw = pw,
                                     !.snap = GetTokenByJTI(tokens, jti),
                                     !.pc = "check"]]
    /\ UNCHANGED <<clock, users, tokens, nextID, outbox>>
    /\ UNCHANGED <<sessions, identities, trace, gate>>

\* The checks on the record read, against the clock now; then HashPassword.
ResetPassword_Check(c) ==
    /\ calls[c].op = "reset" /\ calls[c].pc = "check"
    /\ LET st == ResetPasswordStatus(calls[c].snap, clock) IN
       calls' = [calls EXCEPT ![c].pc = IF st = "ok" THEN "update" ELSE "done",
                              ![c].result = IF st = "ok" THEN "none" ELSE st]
    /\ UNCHANGED <<clock, users, tokens, nextID, outbox>>
    /\ UNCHANGED <<sessions, identities, trace, gate>>

\* userRepo.UpdateUser(resetToken.UserID, PasswordHash).
ResetPassword_UpdateUser(c) ==
    /\ calls[c].op = "reset" /\ calls[c].pc = "update"
    /\ LET id == calls[c].snap.userID IN
       IF id \in Users /\ users[id] # NoUser
       THEN /\ users' = UpdateUser(users, id, HashPassword(calls[c].pw))
            /\ calls' = [calls EXCEPT ![c].pc = "mark", ![c].updated = TRUE]
       ELSE /\ calls' = [calls EXCEPT ![c].pc = "done", ![c].result = ErrInternal]
            /\ UNCHANGED users
    /\ UNCHANGED <<clock, tokens, nextID, outbox>>
    /\ UNCHANGED <<sessions, identities, trace, gate>>

\* tokenRepo.MarkTokenAsUsed(jti), and the return.
ResetPassword_MarkUsed(c) ==
    /\ calls[c].op = "reset" /\ calls[c].pc = "mark"
    /\ tokens' = MarkTokenAsUsed(tokens, calls[c].jti)
    /\ calls' = [calls EXCEPT ![c].pc = "done", ![c].result = "ok"]
    /\ UNCHANGED <<clock, users, nextID, outbox>>
    /\ UNCHANGED <<sessions, identities, trace, gate>>

(* --------------------- ValidatePasswordResetToken ---------------------- *)

\* The call starts: tokenRepo.GetTokenByJTI.
ValidatePasswordResetToken_GetToken(c, jti) ==
    /\ CanStart(c)
    /\ calls' = [calls EXCEPT ![c] =
                    [IdleCall EXCEPT !.op = "validate", !.jti = jti,
                                     !.snap = GetTokenByJTI(tokens, jti),
                                     !.pc = "check"]]
    /\ UNCHANGED <<clock, users, tokens, nextID, outbox>>
    /\ UNCHANGED <<sessions, identities, trace, gate>>

\* The bug of consuming the token when it validates.
ValidateConsumesToken(c) ==
    /\ calls[c].op = "validate" /\ calls[c].pc = "check"
    /\ calls' = [calls EXCEPT ![c].pc = "done",
                              ![c].result = ValidateStatus(calls[c].snap, clock)]
    /\ tokens' = IF ValidateStatus(calls[c].snap, clock) = "ok"
                 THEN MarkTokenAsUsed(tokens, calls[c].jti)
                 ELSE tokens
    /\ UNCHANGED <<clock, users, nextID, outbox>>
    /\ UNCHANGED <<sessions, identities, trace, gate>>

\* The checks on the record read, against the clock now, and the return.
ValidatePasswordResetToken_Check(c) ==
    /\ calls[c].op = "validate" /\ calls[c].pc = "check"
    /\ calls' = [calls EXCEPT ![c].pc = "done",
                              ![c].result = ValidateStatus(calls[c].snap, clock)]
    /\ UNCHANGED <<clock, users, tokens, nextID, outbox>>
    /\ UNCHANGED <<sessions, identities, trace, gate>>

(* ----------------------- clock and housekeeping ------------------------ *)

\* Time passes.
Tick ==
    /\ clock < MaxClock
    /\ clock' = clock + 1
    /\ UNCHANGED <<users, tokens, nextID, outbox, calls>>
    /\ UNCHANGED <<sessions, identities, trace, gate>>

\* Expired-token housekeeping: DeleteExpiredTokens, or the TTL index at work.
ExpireTokens ==
    /\ tokens' = DeleteExpiredTokens(tokens, clock)
    /\ tokens' # tokens
    /\ UNCHANGED <<clock, users, nextID, outbox, calls>>
    /\ UNCHANGED <<sessions, identities, trace, gate>>

(* ------------------------- Register and Login -------------------------- *)

\* The passwords a caller can register or log in with.
AllPasswords == 0..NumPasswords

\* Register starts: HashPassword, then userRepo.CreateUser, whose unique email
\* index refuses an email that a user record holds.
Register_CreateUser(c, email, pw) ==
    /\ CanStart(c)
    /\ DuplicateKey(users, email) \/ FreeUserID(users) # 0
    /\ IF DuplicateKey(users, email)
       THEN /\ calls' = [calls EXCEPT ![c] =
                            [IdleCall EXCEPT !.op = "register", !.email = email,
                                             !.pw = pw, !.pc = "done",
                                             !.result = ErrUserAlreadyExists]]
            /\ UNCHANGED users
       ELSE /\ users' = CreateUser(users, email, HashPassword(pw))
            /\ calls' = [calls EXCEPT ![c] =
                            [IdleCall EXCEPT !.op = "register", !.email = email,
                                             !.pw = pw, !.user = FreeUserID(users),
                                             !.pc = "identity"]]
    /\ UNCHANGED <<clock, tokens, nextID, outbox, sessions, identities, trace, gate>>

\* identityRepo.CreateIdentity for the user created.
Register_CreateIdentity(c) ==
    /\ calls[c].op = "register" /\ calls[c].pc = "identity"
    /\ identities' = CreateIdentity(identities, calls[c].user, calls[c].email)
    /\ calls' = [calls EXCEPT ![c].pc = "session"]
    /\ UNCHANGED <<clock, users, tokens, nextID, outbox, sessions, trace, gate>>

\* The bug of telling the caller that the account does not exist.
LoginUserNotFound == "ErrUserNotFound"

\* What Login returns for an email that matches no user.
LoginUnknownEmail == ErrInvalidCredentials

\* Login starts: userRepo.GetUserByEmail, then VerifyPassword on the hash read.
Login_GetUser(c, email, pw) ==
    /\ CanStart(c)
    /\ LET u == GetUserByEmail(users, email)
           r == IF u = 0 THEN LoginUnknownEmail
                ELSE IF ~VerifyPassword(pw, users[u].passwordHash)
                     THEN ErrInvalidCredentials
                     ELSE "none"
       IN  calls' = [calls EXCEPT ![c] =
                        [IdleCall EXCEPT !.op = "login", !.email = email, !.pw = pw,
                                         !.user = u, !.result = r,
                                         !.pc = IF r = "none" THEN "lastlogin"
                                                ELSE "done"]]
    /\ UNCHANGED <<clock, users, tokens, nextID, outbox, sessions, identities,
                   trace, gate>>

\* identityRepo.UpdateLastLogin(user.ID).
Login_UpdateLastLogin(c) ==
    /\ calls[c].op = "login" /\ calls[c].pc = "lastlogin"
    /\ identities' = UpdateLastLogin(identities, calls[c].user, clock)
    /\ calls' = [calls EXCEPT ![c].pc = "session"]
    /\ UNCHANGED <<clock, users, tokens, nextID, outbox, sessions, trace, gate>>

\* createAuthSession: sessionRepo.CreateSession for the user.
createAuthSession_CreateSession(c) ==
    /\ calls[c].op \in {"register", "login"} /\ calls[c].pc = "session"
    /\ sessions' = CreateSession(sessions, calls[c].user)
    /\ calls' = [calls EXCEPT ![c].sid = Len(sessions) + 1, ![c].pc = "access"]
    /\ UNCHANGED <<clock, users, tokens, nextID, outbox, identities, trace, gate>>

\* createAuthSession: the access token is minted off the clock now.
createAuthSession_AccessToken(c) ==
    /\ calls[c].op \in {"register", "login"} /\ calls[c].pc = "access"
    /\ calls' = [calls EXCEPT
                    ![c].accessToken =
                        generateToken(calls[c].user, calls[c].sid, AccessTokenSecret,
                                      AccessTokenExpiresIn, clock),
                    ![c].pc = "refresh"]
    /\ UNCHANGED <<clock, users, tokens, nextID, outbox, sessions, identities,
                   trace, gate>>

\* createAuthSession: the refresh token is minted off the clock now.
createAuthSession_RefreshToken(c) ==
    /\ calls[c].op \in {"register", "login"} /\ calls[c].pc = "refresh"
    /\ calls' = [calls EXCEPT
                    ![c].refreshToken =
                        generateToken(calls[c].user, calls[c].sid, RefreshTokenSecret,
                                      RefreshTokenExpiresIn, clock),
                    ![c].pc = "stamp"]
    /\ UNCHANGED <<clock, users, tokens, nextID, outbox, sessions, identities,
                   trace, gate>>

\* The bug of returning a pair that was minted again after the update.
ReturnedTokensReminted(c) ==
    [accessToken |-> generateToken(calls[c].user, calls[c].sid, AccessTokenSecret,
                                   AccessTokenExpiresIn, clock + 1),
     refreshToken |-> calls[c].refreshToken]

\* createAuthSession: the *authtypes.Tokens it returns.
ReturnedTokens(c) ==
    [accessToken |-> calls[c].accessToken, refreshToken |-> calls[c].refreshToken]

\* createAuthSession: sessionRepo.UpdateTokens stamps the pair and the expiries,
\* read off the clock now, on the session; the pair is returned.
createAuthSession_UpdateTokens(c) ==
    /\ calls[c].op \in {"register", "login"} /\ calls[c].pc = "stamp"
    /\ sessions' = UpdateTokens(sessions, calls[c].sid,
                        [accessToken |-> calls[c].accessToken,
                         refreshToken |-> calls[c].refreshToken,
                         accessTokenExpiresAt |-> clock + AccessTokenExpiresIn,
                         refreshTokenExpiresAt |-> clock + RefreshTokenExpiresIn])
    /\ calls' = [calls EXCEPT ![c].out = ReturnedTokens(c), ![c].result = "ok",
                              ![c].pc = "done"]
    /\ UNCHANGED <<clock, users, tokens, nextID, outbox, identities, trace, gate>>

\* The stores before anyone has registered, or after user 1 alone has.
InitAuth ==
    /\ clock = 0
    /\ \E n \in 0..1 :
          /\ users = [u \in Users |->
                         IF u <= n THEN [email |-> u, passwordHash |-> HashPassword(0)]
                         ELSE NoUser]
          /\ sessions = [u \in 1..n |-> [RegisteredSession(u) EXCEPT !.id = u]]
          /\ identities = [u \in 1..n |->
                              [userID |-> u, provider |-> "email", email |-> u,
                               lastLoginAt |-> Absent]]
    /\ tokens = [j \in JTIs |-> NoToken]
    /\ nextID = 1
    /\ outbox = {}
    /\ calls = [c \in Calls |-> IdleCall]
    /\ trace = <<>>
    /\ gate = NewJWTInterceptor(AccessTokenSecret, {LoginMethod})

NextAuth ==
    \/ \E c \in AuthCalls, email \in Emails, pw \in AllPasswords :
          Register_CreateUser(c, email, pw)
    \/ \E c \in AuthCalls : Register_CreateIdentity(c)
    \/ \E c \in AuthCalls, email \in Emails, pw \in AllPasswords :
          Login_GetUser(c, email, pw)
    \/ \E c \in AuthCalls : Login_UpdateLastLogin(c)
    \/ \E c \in AuthCalls : createAuthSession_CreateSession(c)
    \/ \E c \in AuthCalls : createAuthSession_AccessToken(c)
    \/ \E c \in AuthCalls : createAuthSession_RefreshToken(c)
    \/ \E c \in AuthCalls : createAuthSession_UpdateTokens(c)
    \/ Tick

\* Register and Login, called concurrently, on an empty store.
SpecAuth == InitAuth /\ [][NextAuth]_vars

(* ------------------------ the Gate handles a call ----------------------- *)

\* The signing methods, keys and registered claims of the tokens presented.
Algs == {"HS256", "HS384", "none"}
Secrets == {AccessTokenSecret, RefreshTokenSecret, PasswordResetTokenSecret}
Instants == {Absent} \cup (0..MaxClock)
Audiences == {{}, {Issuer}, {"other"}, {Issuer, "other"}}
Issuers == {Issuer, "other", "absent"}

\* The well-formed tokens a caller can present.
BearerTokens ==
    [alg : Algs, key : Secrets,
     claims : [userID : {1}, sessionID : {1}, jti : {0}, iat : {0},
               exp : Instants, nbf : Instants, iss : Issuers, aud : Audiences]]

\* A token of each purpose that is valid at every time, and text that is no token.
SampleTokens ==
    {generateToken(1, 1, k, MaxClock + 1, 0) : k \in Secrets} \cup {NoJWT}

\* The first words of the Authorization values presented.
Schemes == {"Bearer", "bearer", "BEARER", "Basic", ""}

\* The Authorization values presented: every token as "Bearer <token>", and
\* the sample tokens under every scheme with no, one or two spaces.
AuthHeaders ==
    [scheme : {"Bearer"}, spaces : {1}, token : BearerTokens]
        \cup [scheme : Schemes, spaces : 0..2, token : SampleTokens]

\* md.Get("Authorization"): no value, one value, or two of which the second
\* is a good bearer value.
Metadata ==
    {<<>>} \cup {<<h>> : h \in AuthHeaders}
        \cup {<<h, g>> : h \in [scheme : {"Basic"}, spaces : {1}, token : {NoJWT}],
                          g \in [scheme : {"Bearer"}, spaces : {1},
                                  token : SampleTokens \ {NoJWT}]}

\* The contexts and requests of the calls.
Contexts == [values : 1..2, claims : {<<>>}]
Requests == 1..2

\* The interceptor NewJWTInterceptor returns, on one call: an exempt method
\* goes to the handler as it came; any other goes there with the claims
\* attached if extractAndValidateJWT returns them, and is refused otherwise.
JWTInterceptor(method, md, ctx, req) ==
    /\ gate.status = "none"
    /\ LET g == [gate EXCEPT !.method = method, !.md = md, !.ctx = ctx, !.req = req]
           r == extractAndValidateJWT(md, gate.secret, clock)
       IN  gate' =
             IF Exempt(gate.exemptMap, method)
             THEN [g EXCEPT !.status = "OK", !.handler = <<[ctx |-> ctx, req |-> req]>>]
             ELSE IF r.err # "nil"
                  THEN [g EXCEPT !.status = "Unauthenticated", !.auth = r.auth]
                  ELSE [g EXCEPT !.status = "OK", !.auth = r.auth,
                                 !.handler = <<[ctx |-> WithValue(ctx, r.claims),
                                                req |-> req]>>]
    /\ UNCHANGED <<clock, users, tokens, nextID, outbox, calls, sessions, identities,
                   trace>>

\* The Gate is constructed with one secret and one set of exempt methods.
InitGate ==
    /\ clock = 0
    /\ users = [u \in Users |-> [email |-> u, passwordHash |-> HashPassword(0)]]
    /\ tokens = [j \in JTIs |-> NoToken]
    /\ nextID = 1
    /\ outbox = {}
    /\ calls = [c \in Calls |-> IdleCall]
    /\ sessions = [u \in Users |-> [RegisteredSession(u) EXCEPT !.id = u]]
    /\ identities = [u \in Users |->
                        [userID |-> u, provider |-> "email", email |-> u,
                         lastLoginAt |-> Absent]]
    /\ trace = <<>>
    /\ \E secret \in Secrets, exemptMethods \in {{}, {LoginMethod}} :
          gate = NewJWTInterceptor(secret, exemptMethods)

\* The call comes at any time; the Gate is done with it when it returns.
NextGate ==
    \/ /\ gate.status = "none"
       /\ \E method \in Methods, md \in Metadata, ctx \in Contexts, req \in Requests :
             JWTInterceptor(method, md, ctx, req)
    \/ gate.status = "none" /\ Tick

\* One call through the Gate, at any time.
SpecGate == InitGate /\ [][NextGate]_vars

(* --------------------------- specification ----------------------------- *)

Next ==
    \/ \E c \in Calls, email \in Emails : RequestPasswordReset_GetUser(c, email)
    \/ \E c \in Calls : RequestPasswordReset_Invalidate(c)
    \/ \E c \in Calls : RequestPasswordReset_Generate(c)
    \/ \E c \in Calls : RequestPasswordReset_Create(c)
    \/ \E c \in Calls : RequestPasswordReset_Send(c)
    \/ \E c \in Calls, jti \in JTIs, pw \in Passwords : ResetPassword_GetToken(c, jti, pw)
    \/ \E c \in Calls : ResetPassword_Check(c)
    \/ \E c \in Calls : ResetPassword_UpdateUser(c)
    \/ \E c \in Calls : ResetPassword_MarkUsed(c)
    \/ \E c \in Calls, jti \in JTIs : ValidatePasswordResetToken_GetToken(c, jti)
    \/ \E c \in Calls : ValidatePasswordResetToken_Check(c)
    \/ Tick
    \/ ExpireTokens

Spec == Init /\ [][Next]_vars

(* ------------------------ one caller, in sequence ----------------------- *)

\* The call returns to its caller, who notes what it returned and what it
\* worked on; the worker is free for the caller's next call.
Return(c) ==
    /\ calls[c].pc = "done"
    /\ trace' = Append(trace, [op |-> calls[c].op, email |-> calls[c].email,
                               jti |-> calls[c].jti, pw |-> calls[c].pw,
                               result |-> calls[c].result, out |-> calls[c].out,
                               created |-> calls[c].created])
    /\ calls' = [calls EXCEPT ![c] = IdleCall]
    /\ UNCHANGED <<clock, users, tokens, nextID, outbox, sessions, identities, gate>>

\* The store before anyone has registered.
InitScenario == InitAuth /\ users = [u \in Users |-> NoUser]

\* One caller makes seven calls, each after the one before has returned:
\* Register with the password 0, RequestPasswordReset twice, ResetPassword with
\* the first token's JTI and then with the second's, Login with the new
\* password and Login with the old one.  Time passes and expired tokens are
\* deleted as they are anywhere else.
NextScenario ==
    \/ Len(trace) = 0 /\ \E email \in Emails : Register_CreateUser(1, email, 0)
    \/ Register_CreateIdentity(1)
    \/ createAuthSession_CreateSession(1)
    \/ createAuthSession_AccessToken(1)
    \/ createAuthSession_RefreshToken(1)
    \/ createAuthSession_UpdateTokens(1)
    \/ Len(trace) \in {1, 2} /\ RequestPasswordReset_GetUser(1, trace[1].email)
    \/ RequestPasswordReset_Invalidate(1)
    \/ RequestPasswordReset_Generate(1)
    \/ RequestPasswordReset_Create(1)
    \/ RequestPasswordReset_Send(1)
    \/ Len(trace) = 3 /\ \E pw \in Passwords : ResetPassword_GetToken(1, trace[2].jti, pw)
    \/ Len(trace) = 4 /\ ResetPassword_GetToken(1, trace[3].jti, trace[4].pw)
    \/ ResetPassword_Check(1)
    \/ ResetPassword_UpdateUser(1)
    \/ ResetPassword_MarkUsed(1)
    \/ Len(trace) = 5 /\ Login_GetUser(1, trace[1].email, trace[4].pw)
    \/ Len(trace) = 6 /\ Login_GetUser(1, trace[1].email, trace[1].pw)
    \/ Login_UpdateLastLogin(1)
    \/ Return(1)
    \/ Tick
    \/ ExpireTokens

\* The end-to-end scenario of one user.
SpecScenario == InitScenario /\ [][NextScenario]_vars

(* ---------------------- the store's call can fail ---------------------- *)

\* tokenRepo.MarkTokenAsUsed returns an error (the store is unreachable, the
\* context is done): ResetPassword hands it up, the password hash changed.
ResetPassword_MarkUsedFails(c) ==
    /\ calls[c].op = "reset" /\ calls[c].pc = "mark"
    /\ calls' = [calls EXCEPT ![c].pc = "done", ![c].result = ErrInternal]
    /\ UNCHANGED <<clock, users, tokens, nextID, outbox, sessions, identities,
                   trace, gate>>

NextFaults ==
    \/ Next
    \/ \E c \in Calls : ResetPassword_MarkUsedFails(c)

\* The password-reset protocol on a store whose mark-used call can fail.
SpecFaults == Init /\ [][NextFaults]_vars

(* --------------------- the caller cancels the context ------------------ *)

\* The caller cancels the context of a call that is in flight.
Cancel(c) ==
    /\ calls[c].op # "none" /\ calls[c].pc # "done" /\ calls[c].ctx = "live"
    /\ calls' = [calls EXCEPT ![c].ctx = "canceled"]
    /\ UNCHANGED <<clock, users, tokens, nextID, outbox, sessions, identities,
                   trace, gate>>

\* The positions of the password-reset operations at which the next step is a
\* store call that takes the context.
StoreSteps == {"invalidate", "create", "update", "mark"}

\* A store call under a context that is done: the driver returns the
\* context's error and the use case hands it up.
StoreCallCanceled(c) ==
    /\ calls[c].ctx = "canceled" /\ calls[c].pc \in StoreSteps
    /\ calls' = [calls EXCEPT ![c].pc = "done", ![c].result = ErrCanceled]
    /\ UNCHANGED <<clock, users, tokens, nextID, outbox, sessions, identities,
                   trace, gate>>

\* The context reaches the store calls alone: generatePasswordResetToken, the
\* checks on the record read and mailer.SendHTML take no context and run
\* whether it is done or not.
NextCancel ==
    \/ \E c \in CancelCalls, email \in Emails : RequestPasswordReset_GetUser(c, email)
    \/ \E c \in CancelCalls : calls[c].ctx = "live" /\ RequestPasswordReset_Invalidate(c)
    \/ \E c \in CancelCalls : RequestPasswordReset_Generate(c)
    \/ \E c \in CancelCalls : calls[c].ctx = "live" /\ RequestPasswordReset_Create(c)
    \/ \E c \in CancelCalls : RequestPasswordReset_Send(c)
    \/ \E c \in CancelCalls, jti \in JTIs, pw \in Passwords : ResetPassword_GetToken(c, jti, pw)
    \/ \E c \in CancelCalls : ResetPassword_Check(c)
    \/ \E c \in CancelCalls : calls[c].ctx = "live" /\ ResetPassword_UpdateUser(c)
    \/ \E c \in CancelCalls : calls[c].ctx = "live" /\ ResetPassword_MarkUsed(c)
    \/ \E c \in CancelCalls, jti \in JTIs : ValidatePasswordResetToken_GetToken(c, jti)
    \/ \E c \in CancelCalls : ValidatePasswordResetToken_Check(c)
    \/ \E c \in CancelCalls : Cancel(c)
    \/ \E c \in CancelCalls : StoreCallCanceled(c)
    \/ Tick
    \/ ExpireTokens

\* The password-reset protocol with callers that cancel.
SpecCancel == Init /\ [][NextCancel]_vars

(* ------------- RequestPasswordReset on failing collaborators ----------- *)

\* The bug of returning nil where a collaborator returned an error.
SwallowError(c, err) == [calls EXCEPT ![c].pc = "done", ![c].result = "ok"]

\* if err != nil { return err }: the call ends with the collaborator's error.
ReturnError(c, err) == [calls EXCEPT ![c].pc = "done", ![c].result = err]

\* tokenRepo.InvalidateUserTokens returns an error: UpdateMany was not applied.
RequestPasswordReset_InvalidateFails(c) ==
    /\ calls[c].op = "request" /\ calls[c].pc = "invalidate"
    /\ calls' = ReturnError(c, ErrInternal)
    /\ UNCHANGED <<clock, users, tokens, nextID, outbox, sessions, identities,
                   trace, gate>>

\* tokenRepo.CreateToken returns an error: InsertOne was not applied.
RequestPasswordReset_CreateFails(c) ==
    /\ calls[c].op = "request" /\ calls[c].pc = "create"
    /\ calls' = ReturnError(c, ErrInternal)
    /\ UNCHANGED <<clock, users, tokens, nextID, outbox, sessions, identities,
                   trace, gate>>

\* mailer.SendHTML returns an error: DialAndSend delivered nothing.
RequestPasswordReset_SendFails(c) ==
    /\ calls[c].op = "request" /\ calls[c].pc = "send"
    /\ calls' = ReturnError(c, ErrInternal)
    /\ UNCHANGED <<clock, users, tokens, nextID, outbox, sessions, identities,
                   trace, gate>>

NextRequestFaults ==
    \/ Next
    \/ \E c \in Calls : RequestPasswordReset_InvalidateFails(c)
    \/ \E c \in Calls : RequestPasswordReset_CreateFails(c)
    \/ \E c \in Calls : RequestPasswordReset_SendFails(c)

\* The password-reset protocol on a store and a mailer that RequestPasswordReset
\* can find failing.
SpecRequestFaults == Init /\ [][NextRequestFaults]_vars

(* ------------------ Login and Register on a failing store -------------- *)

\* identityRepo.UpdateLastLogin returns an error: UpdateOne was not applied.
Login_UpdateLastLoginFails(c) ==
    /\ calls[c].op = "login" /\ calls[c].pc = "lastlogin"
    /\ calls' = ReturnError(c, ErrInternal)
    /\ UNCHANGED <<clock, users, tokens, nextID, outbox, sessions, identities,
                   trace, gate>>

\* sessionRepo.CreateSession returns an error: InsertOne was not applied.
createAuthSession_CreateSessionFails(c) ==
    /\ calls[c].op \in {"register", "login"} /\ calls[c].pc = "session"
    /\ calls' = ReturnError(c, ErrInternal)
    /\ UNCHANGED <<clock, users, tokens, nextID, outbox, sessions, identities,
                   trace, gate>>

\* sessionRepo.UpdateTokens returns an error: FindOneAndUpdate was not
\* applied, and createAuthSession returns nil tokens with the error.
createAuthSession_UpdateTokensFails(c) ==
    /\ calls[c].op \in {"register", "login"} /\ calls[c].pc = "stamp"
    /\ calls' = ReturnError(c, ErrInternal)
    /\ UNCHANGED <<clock, users, tokens, nextID, outbox, sessions, identities,
                   trace, gate>>

\* The variant of a Register that takes the user record back when the
\* identity cannot be created.
Register_CreateIdentityRollsBack(c) ==
    /\ calls[c].op = "register" /\ calls[c].pc = "identity"
    /\ users' = [users EXCEPT ![calls[c].user] = NoUser]
    /\ calls' = ReturnError(c, ErrInternal)
    /\ UNCHANGED <<clock, tokens, nextID, outbox, sessions, identities, trace, gate>>

\* identityRepo.CreateIdentity returns an error: InsertOne was not applied,
\* and Register returns the error; the user record stays.
Register_CreateIdentityFails(c) ==
    /\ calls[c].op = "register" /\ calls[c].pc = "identity"
    /\ calls' = ReturnError(c, ErrInternal)
    /\ UNCHANGED <<clock, users, tokens, nextID, outbox, sessions, identities,
                   trace, gate>>

NextAuthFaults ==
    \/ NextAuth
    \/ \E c \in AuthCalls : Register_CreateIdentityFails(c)
    \/ \E c \in AuthCalls : Login_UpdateLastLoginFails(c)
    \/ \E c \in AuthCalls : createAuthSession_CreateSessionFails(c)
    \/ \E c \in AuthCalls : createAuthSession_UpdateTokensFails(c)

\* Register and Login on a store whose calls can fail.
SpecAuthFaults == InitAuth /\ [][NextAuthFaults]_vars

(* ------------------- the service: every operation ---------------------- *)

\* The stores after user 1 has registered and asked for a password reset at
\* time 0: the user, the identity and the session of InitAuth, the unused
\* reset token under the first JTI and its mail.
InitService ==
    /\ clock = 0
    /\ users = [u \in Users |->
                   IF u = 1 THEN [email |-> 1, passwordHash |-> HashPassword(0)]
                   ELSE NoUser]
    /\ sessions = <<RegisteredSession(1)>>
    /\ identities = <<[userID |-> 1, provider |-> "email", email |-> 1,
                       lastLoginAt |-> Absent]>>
    /\ tokens = [j \in JTIs |-> IF j = 1 THEN NewToken(1, 1, 0) ELSE NoToken]
    /\ nextID = 2
    /\ outbox = {[to |-> 1, jti |-> 1, exp |-> PasswordResetTokenExpiresIn]}
    /\ calls = [c \in Calls |-> IdleCall]
    /\ trace = <<>>
    /\ gate = NewJWTInterceptor(AccessTokenSecret, {LoginMethod})

\* The access token issued last, if its session has been stamped.
LastAccessToken ==
    IF Len(sessions) > 0 /\ sessions[Len(sessions)].accessToken # NoJWT
    THEN {sessions[Len(sessions)].accessToken}
    ELSE {}

\* What the caller presents to the Gate: no Authorization value, or the
\* access token issued last, as "Bearer <token>".
PresentedMetadata ==
    {<<>>} \cup {<<[scheme |-> "Bearer", spaces |-> 1, token |-> t]>> :
                    t \in LastAccessToken}

\* Register, Login and the password-reset operations, called concurrently,
\* and one call through the Gate.
NextService ==
    \/ NextAuth
    \/ \E c \in AuthCalls, email \in Emails : RequestPasswordReset_GetUser(c, email)
    \/ \E c \in AuthCalls : RequestPasswordReset_Invalidate(c)
    \/ \E c \in AuthCalls : RequestPasswordReset_Generate(c)
    \/ \E c \in AuthCalls : RequestPasswordReset_Create(c)
    \/ \E c \in AuthCalls : RequestPasswordReset_Send(c)
    \/ \E c \in AuthCalls, jti \in JTIs, pw \in Passwords :
          ResetPassword_GetToken(c, jti, pw)
    \/ \E c \in AuthCalls : ResetPassword_Check(c)
    \/ \E c \in AuthCalls : ResetPassword_UpdateUser(c)
    \/ \E c \in AuthCalls : ResetPassword_MarkUsed(c)
    \/ \E c \in AuthCalls, jti \in JTIs : ValidatePasswordResetToken_GetToken(c, jti)
    \/ \E c \in AuthCalls : ValidatePasswordResetToken_Check(c)
    \/ ExpireTokens
    \/ /\ gate.status = "none"
       /\ \E method \in Methods, md \in PresentedMetadata :
             JWTInterceptor(method, md, [values |-> 1, claims |-> <<>>], 1)

SpecService == InitService /\ [][NextService]_vars

(* ------------------ the handlers behind the Gate ----------------------- *)

\* passwordResetUsecase.generatePasswordResetToken: the reset claims with the
\* jti, minted at now and signed with the password-reset secret.
generatePasswordResetToken(userID, jti, now) ==
    GenerateToken([userID |-> userID, sessionID |-> 0, jti |-> jti,
                   iat |-> now, exp |-> now + PasswordResetTokenExpiresIn, nbf |-> now,
                   iss |-> Issuer, aud |-> {Issuer}], PasswordResetTokenSecret)

\* The gRPC status codes of the handlers' refusals.
Unauthenticated == "Unauthenticated"
InvalidArgument == "InvalidArgument"

\* The bug of reading the JTI off the request when the context has no claims.
JTIFromRequest(ctx, req) == IF ctx.claims = <<>> THEN 1 ELSE ctx.claims[1].jti

\* ctx.Value(UserClaimsKey).(jwt.MapClaims) and claims["jti"].(string): the
\* jti of the claims in the context, 0 when there are no claims or no jti.
JTIFromContext(ctx, req) == IF ctx.claims = <<>> THEN 0 ELSE ctx.claims[1].jti

\* A handler returns a status without calling the use case.
Refuse(c, code) ==
    [calls EXCEPT ![c] = [IdleCall EXCEPT !.op = "refused", !.pc = "done",
                                           !.result = code]]

\* authGRPCHandler.ResetPassword, invoked by the Gate: the new password of
\* the request (Absent when empty), the jti of the claims in the context,
\* then the use case, up to its GetTokenByJTI.
authGRPCHandler_ResetPassword(c) ==
    /\ CanStart(c)
    /\ gate.status = "OK" /\ gate.method = ResetPasswordMethod
    /\ LET ctx == gate.handler[1].ctx
           newPassword == gate.handler[1].req
           jti == JTIFromContext(ctx, newPassword)
       IN  calls' =
             IF newPassword = Absent THEN Refuse(c, InvalidArgument)
             ELSE IF jti = 0 THEN Refuse(c, Unauthenticated)
             ELSE [calls EXCEPT ![c] =
                      [IdleCall EXCEPT !.op = "reset", !.jti = jti, !.pw = newPassword,
                                       !.snap = GetTokenByJTI(tokens, jti),
                                       !.pc = "check"]]
    /\ UNCHANGED <<clock, users, tokens, nextID, outbox, sessions, identities,
                   trace, gate>>

\* authGRPCHandler.ValidatePasswordResetToken, invoked by the Gate: the jti of
\* the claims in the context, then the use case, up to its GetTokenByJTI.
authGRPCHandler_ValidatePasswordResetToken(c) ==
    /\ CanStart(c)
    /\ gate.status = "OK" /\ gate.method = ValidatePasswordResetTokenMethod
    /\ LET ctx == gate.handler[1].ctx
           jti == JTIFromContext(ctx, gate.handler[1].req)
       IN  calls' =
             IF jti = 0 THEN Refuse(c, Unauthenticated)
             ELSE [calls EXCEPT ![c] =
                      [IdleCall EXCEPT !.op = "validate", !.jti = jti,
                                       !.snap = GetTokenByJTI(tokens, jti),
                                       !.pc = "check"]]
    /\ UNCHANGED <<clock, users, tokens, nextID, outbox, sessions, identities,
                   trace, gate>>

\* The servers the handlers can sit in: the Gate holds the access-token or the
\* password-reset secret, and exempts Login alone or the reset methods too.
\* The stores are those of InitService.
InitHandlers ==
    /\ clock = 0
    /\ users = [u \in Users |->
                   IF u = 1 THEN [email |-> 1, passwordHash |-> HashPassword(0)]
                   ELSE NoUser]
    /\ sessions = <<RegisteredSession(1)>>
    /\ identities = <<[userID |-> 1, provider |-> "email", email |-> 1,
                       lastLoginAt |-> Absent]>>
    /\ tokens = [j \in JTIs |-> IF j = 1 THEN NewToken(1, 1, 0) ELSE NoToken]
    /\ nextID = 2
    /\ outbox = {[to |-> 1, jti |-> 1, exp |-> PasswordResetTokenExpiresIn]}
    /\ calls = [c \in Calls |-> IdleCall]
    /\ trace = <<>>
    /\ \E secret \in {AccessTokenSecret, PasswordResetTokenSecret},
          exemptMethods \in {{LoginMethod},
                             {LoginMethod, ResetPasswordMethod,
                              ValidatePasswordResetTokenMethod}} :
          gate = NewJWTInterceptor(secret, exemptMethods)

\* The tokens user 1 holds: the reset token of the mail and the session pair.
HeldTokens ==
    {generatePasswordResetToken(1, 1, 0),
     RegisteredSession(1).accessToken, RegisteredSession(1).refreshToken}

\* One call to a reset method comes through the Gate, with no Authorization
\* value or with a token the user holds, and with an empty or a new password;
\* the Gate invokes the handler, and the handler the use case.
NextHandlers ==
    \/ /\ gate.status = "none"
       /\ \E method \in {ResetPasswordMethod, ValidatePasswordResetTokenMethod},
             md \in {<<>>} \cup {<<[scheme |-> "Bearer", spaces |-> 1, token |-> t]>> :
                                    t \in HeldTokens},
             req \in {Absent} \cup Passwords :
             JWTInterceptor(method, md, [values |-> 1, claims |-> <<>>], req)
    \/ authGRPCHandler_ResetPassword(1)
    \/ authGRPCHandler_ValidatePasswordResetToken(1)
    \/ ResetPassword_Check(1)
    \/ ResetPassword_UpdateUser(1)
    \/ ResetPassword_MarkUsed(1)
    \/ ValidatePasswordResetToken_Check(1)
    \/ Tick
    \/ ExpireTokens

SpecHandlers == InitHandlers /\ [][NextHandlers]_vars

(* ------------------------------ claims -------------------------------- *)

\* The calls of one operation.
CallsOf(op) == {c \in Calls : calls[c].op = op}
\* The token records InsertOne has made so far.
TokenIDs == 1..(nextID - 1)
\* What ValidatePasswordResetToken and ResetPassword make of jti in this state.
ValidateNow(jti) == ValidateStatus(GetTokenByJTI(tokens, jti), clock)
ResetNow(jti) == ResetPasswordStatus(GetTokenByJTI(tokens, jti), clock)

\* The ResetPassword calls that read the record id unused, passed the expiry
\* check on it and have returned.  Two of them ran concurrently: each read the
\* record before the other marked it.
Racers(id) ==
    {c \in CallsOf("reset") :
        /\ calls[c].snap.id = id /\ ~calls[c].snap.used
        /\ calls[c].pc = "done" /\ calls[c].result # ErrTokenExpired}

\* C1: of the ResetPassword calls that run concurrently on one unused,
\* unexpired token, exactly one returns success and every other one returns
\* ErrTokenAlreadyUsed.
C1_ExactlyOneSuccess ==
    \A id \in TokenIDs :
        Cardinality(Racers(id)) >= 2 =>
            /\ Cardinality({c \in Racers(id) : calls[c].result = "ok"}) = 1
            /\ \A c \in Racers(id) : calls[c].result \in {"ok", ErrTokenAlreadyUsed}

\* C2: a reset token is consumed at most once: at most one ResetPassword call
\* updates the owner's password hash on the strength of one token record.
C2_ConsumedAtMostOnce ==
    \A id \in TokenIDs :
        Cardinality({c \in CallsOf("reset") :
                        calls[c].updated /\ calls[c].snap.id = id}) <= 1

\* The unused reset-token records of user u.
Unused(u) ==
    {j \in JTIs : tokens[j] # NoToken /\ tokens[j].userID = u /\ ~tokens[j].used}

\* C5: in every reachable state a user has at most one unused reset token.
C5_AtMostOneUnusedPerUser == \A u \in Users : Cardinality(Unused(u)) <= 1

\* C10: a token is accepted by ValidatePasswordResetToken and ResetPassword
\* if and only if it is unused and now < expiresAt; at now = expiresAt it is
\* rejected.
C10_AcceptedIffBeforeExpiry ==
    \A j \in JTIs :
        tokens[j] # NoToken =>
            /\ ValidateNow(j) = "ok" <=> (~tokens[j].used /\ clock < tokens[j].expiresAt)
            /\ ResetNow(j) = "ok" <=> (~tokens[j].used /\ clock < tokens[j].expiresAt)

\* The calls that have returned the result r.
Done(op, r) == {c \in CallsOf(op) : calls[c].pc = "done" /\ calls[c].result = r}
\* The calls that read a token record: ResetPassword and ValidatePasswordResetToken.
Readers == CallsOf("reset") \cup CallsOf("validate")

\* C3 as stated: once a ResetPassword call has succeeded for a JTI, every later
\* ResetPassword or ValidatePasswordResetToken call with that JTI fails with
\* ErrTokenAlreadyUsed.
C3_UsedForEver ==
    \A c \in Done("reset", "ok") :
        /\ ValidateNow(calls[c].jti) = ErrTokenAlreadyUsed
        /\ ResetNow(calls[c].jti) = ErrTokenAlreadyUsed

\* The step of RequestPasswordReset that persists the token record.
Issues(c) == RequestPasswordReset_Create(c) /\ calls'[c].pc = "send"

\* A token validates in the state its record is persisted in.
C3_ValidWhenIssued ==
    \A c \in Calls : Issues(c) => ValidateNow(calls[c].jti)' = "ok"

\* The record a successful ResetPassword consumed is used for as long as it is
\* in the store, and both operations answer ErrTokenAlreadyUsed for it; once
\* housekeeping has deleted it they answer ErrTokenNotFound.  A call that reads
\* a used record, or none, returns that error and updates no password hash.
C3_ConsumedStaysUsed ==
    /\ \A c \in Done("reset", "ok") :
          LET t == GetTokenByJTI(tokens, calls[c].jti) IN
          /\ t.id = calls[c].snap.id =>
                /\ t.used
                /\ ValidateNow(calls[c].jti) = ErrTokenAlreadyUsed
                /\ ResetNow(calls[c].jti) = ErrTokenAlreadyUsed
          /\ t = NoToken =>
                /\ ValidateNow(calls[c].jti) = ErrTokenNotFound
                /\ ResetNow(calls[c].jti) = ErrTokenNotFound
    /\ \A d \in Readers :
          calls[d].pc = "done" =>
             /\ calls[d].snap.used =>
                   calls[d].result = ErrTokenAlreadyUsed /\ ~calls[d].updated
             /\ calls[d].snap = NoToken =>
                   calls[d].result = ErrTokenNotFound /\ ~calls[d].updated

\* C3, amended: ValidatePasswordResetToken succeeds on a token in the state it
\* is issued in; after a ResetPassword call has succeeded for it, every later
\* ResetPassword or ValidatePasswordResetToken call with its JTI fails with
\* ErrTokenAlreadyUsed while the record is in the store, with ErrTokenNotFound
\* once expired-token housekeeping has deleted it, and changes no password hash.
C3_UsedUntilDeleted == [][C3_ValidWhenIssued /\ C3_ConsumedStaysUsed']_vars

\* C3's case: a token was consumed, and a later call on it was refused as used.
C3_Witness ==
    \E c \in Done("reset", "ok"), d \in Readers :
        /\ d # c /\ calls[d].pc = "done"
        /\ calls[d].snap.id = calls[c].snap.id /\ calls[d].snap.used
        /\ calls[d].result = ErrTokenAlreadyUsed

\* C4 as stated: when RequestPasswordReset returns success for a user who had
\* unused tokens, every other token of that user is used and the new token is
\* in the store, unused.
C4_OthersUsedNewUnusedOnReturn ==
    [][\A c \in Calls :
          (RequestPasswordReset_Send(c) /\ calls[c].prior # {}) =>
             /\ \A j \in JTIs :
                   (/\ tokens'[j] # NoToken
                    /\ tokens'[j].userID = calls[c].user
                    /\ tokens'[j].id # calls[c].created.id) => tokens'[j].used
             /\ tokens'[calls[c].jti].id = calls[c].created.id
             /\ ~tokens'[calls[c].jti].used]_vars

\* C4, amended: when RequestPasswordReset returns success, every token of the
\* user that was unused when the call began has used=true (if housekeeping has
\* not deleted it), so ResetPassword and ValidatePasswordResetToken fail on it
\* with ErrTokenAlreadyUsed; the new token is unused and passes validation in
\* the state it is persisted in (by the return a concurrent call can have
\* marked it used).
C4_PriorUsedNewValidWhenIssued ==
    [][/\ \A c \in Calls :
             RequestPasswordReset_Send(c) =>
                \A j \in JTIs :
                   tokens'[j].id \in calls[c].prior =>
                      /\ tokens'[j].used
                      /\ ValidateNow(j)' = ErrTokenAlreadyUsed
                      /\ ResetNow(j)' = ErrTokenAlreadyUsed
       /\ \A c \in Calls :
             Issues(c) =>
                /\ tokens'[calls[c].jti].id = calls'[c].created.id
                /\ ~tokens'[calls[c].jti].used
                /\ tokens'[calls[c].jti].userID = calls[c].user
                /\ ValidateNow(calls[c].jti)' = "ok"
                /\ ResetNow(calls[c].jti)' = "ok"]_vars

\* C4's case: two requests for one user and no other call; the second has
\* returned, the first token is used and the second unused.
C4_Witness ==
    \E c \in Done("request", "ok"), j \in JTIs :
        /\ CallsOf("reset") = {} /\ CallsOf("validate") = {}
        /\ tokens[j].id \in calls[c].prior /\ tokens[j].used
        /\ tokens[calls[c].jti].id = calls[c].created.id
        /\ ~tokens[calls[c].jti].used

\* C6: RequestPasswordReset with an email that matches no user returns success
\* at once and has no side effect: no reset-token record is created or
\* modified, no user is changed, no mail is sent, and the call takes no
\* further step.
C6_UnknownEmailSilentSuccess ==
    [][\A c \in Calls :
          /\ \A email \in Emails :
                (RequestPasswordReset_GetUser(c, email)
                    /\ GetUserByEmail(users, email) = 0) =>
                   /\ calls'[c].pc = "done" /\ calls'[c].result = "ok"
                   /\ UNCHANGED <<tokens, nextID, users, outbox>>
          /\ (calls[c].op = "request" /\ calls[c].user = 0) =>
                calls'[c] = calls[c]]_vars

\* C6's case: a request for an unknown email has returned while the store
\* holds a token and the mailer has sent a mail to someone else.
C6_Witness ==
    \E c \in Done("request", "ok") :
        /\ calls[c].user = 0
        /\ \E j \in JTIs : tokens[j] # NoToken
        /\ outbox # {}

\* Call c takes a step.
Steps(c) == calls'[c] # calls[c]

\* C7: ValidatePasswordResetToken(jti) reads the record with that JTI and
\* returns ErrTokenNotFound if there is none; otherwise ErrTokenAlreadyUsed if
\* the record is used, expired or not; otherwise ErrTokenExpired if the clock
\* is past expiresAt; otherwise success.
C7_ValidateResult ==
    [][\A c \in Calls :
          (Steps(c) /\ calls'[c].op = "validate") =>
             LET t == calls'[c].snap
                 r == calls'[c].result
             IN  /\ calls[c].op = "none" =>
                       /\ t = tokens[calls'[c].jti]
                       /\ calls'[c].pc # "done"
                 /\ calls[c].op = "validate" =>
                       /\ calls'[c].pc = "done"
                       /\ t = NoToken => r = ErrTokenNotFound
                       /\ (t # NoToken /\ t.used) => r = ErrTokenAlreadyUsed
                       /\ (t # NoToken /\ ~t.used /\ clock > t.expiresAt) =>
                             r = ErrTokenExpired
                       /\ (t # NoToken /\ ~t.used /\ clock <= t.expiresAt) =>
                             r = "ok"]_vars

\* C7's case: a validation of a used record whose expiry has passed has
\* returned ErrTokenAlreadyUsed.
C7_Witness ==
    \E c \in Done("validate", ErrTokenAlreadyUsed) :
        calls[c].snap.used /\ calls[c].snap.expiresAt < clock

\* C8: ValidatePasswordResetToken is read-only and idempotent: no step of it
\* changes a reset-token record, a user record or the outbox, and on an
\* unchanged store and clock a repeated call returns what this one returned.
C8_ValidateReadOnly ==
    [][\A c \in Calls :
          (Steps(c) /\ calls'[c].op = "validate") =>
             /\ UNCHANGED <<tokens, users, nextID, outbox, clock>>
             /\ (/\ calls[c].pc = "check"
                 /\ calls[c].snap = GetTokenByJTI(tokens, calls[c].jti)) =>
                   calls'[c].result = ValidateNow(calls[c].jti)']_vars

\* C8's case: two validations of one unused token have both succeeded, and
\* the record is still in the store, unused.
C8_Witness ==
    \E c, d \in Done("validate", "ok") :
        /\ c # d /\ calls[c].snap.id = calls[d].snap.id
        /\ tokens[calls[c].jti].id = calls[c].snap.id
        /\ ~tokens[calls[c].jti].used

\* The record at jti is unused and its expiry instant has passed.
ExpiredUnused(toks, jti, now) ==
    toks[jti] # NoToken /\ ~toks[jti].used /\ now > toks[jti].expiresAt

\* C9 as stated: an unused token whose expiry has passed fails both
\* operations with ErrTokenExpired at every later time, housekeeping or not.
C9_ExpiredForEver ==
    [][\A j \in JTIs :
          (ExpiredUnused(tokens, j, clock)
              /\ (tokens'[j] = NoToken \/ ~tokens'[j].used)) =>
             /\ ValidateNow(j)' = ErrTokenExpired
             /\ ResetNow(j)' = ErrTokenExpired]_vars

\* C9, amended: an unused token whose expiry has passed fails both
\* operations with ErrTokenExpired for as long as its record is in the store;
\* once expired-token housekeeping has deleted the record they fail with
\* ErrTokenNotFound.  A call that checks such a record returns
\* ErrTokenExpired and updates no password hash.
C9_ExpiredUntilDeleted ==
    [][/\ \A j \in JTIs :
             ExpiredUnused(tokens, j, clock) =>
                \/ /\ tokens'[j] = tokens[j]
                   /\ ValidateNow(j)' = ErrTokenExpired
                   /\ ResetNow(j)' = ErrTokenExpired
                \/ /\ tokens'[j] = NoToken
                   /\ ValidateNow(j)' = ErrTokenNotFound
                   /\ ResetNow(j)' = ErrTokenNotFound
                \/ /\ tokens'[j] = [tokens[j] EXCEPT !.used = TRUE]
                   /\ ValidateNow(j)' = ErrTokenAlreadyUsed
                   /\ ResetNow(j)' = ErrTokenAlreadyUsed
       /\ \A c \in Readers :
             (/\ Steps(c) /\ calls[c].pc = "check"
              /\ calls[c].snap # NoToken /\ ~calls[c].snap.used
              /\ clock > calls[c].snap.expiresAt) =>
                /\ calls'[c].pc = "done"
                /\ calls'[c].result = ErrTokenExpired
                /\ ~calls'[c].updated
                /\ UNCHANGED <<tokens, users>>]_vars

\* C9's case: a token expired unused; one call on it returned
\* ErrTokenExpired, housekeeping deleted the record, and a later call with
\* its JTI returned ErrTokenNotFound.
C9_Witness ==
    \E c \in CallsOf("request"), d, e \in Readers :
        /\ calls[c].created # NoToken /\ clock > calls[c].created.expiresAt
        /\ tokens[calls[c].jti] = NoToken
        /\ calls[d].snap.id = calls[c].created.id
        /\ calls[d].pc = "done" /\ calls[d].result = ErrTokenExpired
        /\ calls[e].jti = calls[c].jti /\ calls[e].snap = NoToken
        /\ calls[e].pc = "done" /\ calls[e].result = ErrTokenNotFound

\* C11: the password change and the used-marking are a unit: no ResetPassword
\* call has returned, with success or with an error, having changed the
\* user's password hash while the record it consumed is in the store unused.
C11_ChangedOnlyIfMarked ==
    \A c \in CallsOf("reset") :
        (calls[c].pc = "done" /\ calls[c].updated) =>
            LET t == GetTokenByJTI(tokens, calls[c].jti) IN
            t.id = calls[c].snap.id => t.used

\* The calls of Login and Register.
AuthCallsMade == CallsOf("login") \cup CallsOf("register")

\* C13: Login with an email that matches no user and Login with an existing
\* email and a wrong password return at once the one error value
\* ErrInvalidCredentials, and any two such calls have returned equal values.
C13_SameErrorUnknownOrWrong ==
    [][/\ \A c \in Calls :
             (calls[c].op = "none" /\ calls'[c].op = "login") =>
                LET email == calls'[c].email
                    pw == calls'[c].pw
                    known == {u \in Users : users[u] # NoUser /\ users[u].email = email}
                IN  (known = {} \/ \E u \in known : users[u].passwordHash # HashPassword(pw))
                        => /\ calls'[c].pc = "done"
                           /\ calls'[c].result = ErrInvalidCredentials
                           /\ calls'[c].out = NoTokens
       /\ \A c, d \in CallsOf("login") :
             (/\ calls'[c].pc = "done" /\ calls'[d].pc = "done"
              /\ calls'[c].result # "ok" /\ calls'[d].result # "ok")
                => calls'[c].result = calls'[d].result]_vars

\* C13's case: one behaviour holds a Login with an unknown email and a Login
\* of a registered user with a wrong password; both returned the same error.
C13_Witness ==
    \E c, d \in Done("login", ErrInvalidCredentials) :
        /\ calls[c].user = 0
        /\ calls[d].user # 0 /\ users[calls[d].user].email = calls[d].email
        /\ users[calls[d].user].passwordHash # HashPassword(calls[d].pw)

\* C14: every successful Login or Register returns an access token and a
\* refresh token that both carry the identifier of the authenticated user and
\* the identifier of one session record; that record was inserted by the same
\* call, is owned by that user, and holds the returned pair.
C14_PairBoundToOwnSession ==
    [][\A c \in Calls :
          /\ (Steps(c) /\ calls'[c].pc = "access") =>
                /\ Len(sessions') = Len(sessions) + 1
                /\ calls'[c].sid = Len(sessions')
                /\ sessions'[calls'[c].sid].id = calls'[c].sid
                /\ sessions'[calls'[c].sid].userID = calls[c].user
                /\ \A d \in Calls \ {c} : calls'[d].sid # calls'[c].sid
          /\ (/\ Steps(c) /\ calls'[c].op \in {"login", "register"}
              /\ calls'[c].pc = "done" /\ calls'[c].result = "ok") =>
                LET out == calls'[c].out
                    u == calls'[c].user
                    sid == calls'[c].sid
                IN  /\ u \in Users /\ users'[u].email = calls'[c].email
                    /\ VerifyPassword(calls'[c].pw, users'[u].passwordHash)
                    /\ out.accessToken # NoJWT /\ out.refreshToken # NoJWT
                    /\ out.accessToken # out.refreshToken
                    /\ out.accessToken.claims.userID = u
                    /\ out.refreshToken.claims.userID = u
                    /\ out.accessToken.claims.sessionID = sid
                    /\ out.refreshToken.claims.sessionID = sid
                    /\ sid \in 1..Len(sessions')
                    /\ sessions'[sid].userID = u
                    /\ sessions'[sid].accessToken = out.accessToken
                    /\ sessions'[sid].refreshToken = out.refreshToken]_vars

\* C14's case: a Register and a later Login of the same user have both
\* returned a pair, each bound to its own session record.
C14_Witness ==
    \E c \in Done("register", "ok"), d \in Done("login", "ok") :
        /\ calls[c].user = calls[d].user
        /\ calls[c].sid # calls[d].sid
        /\ calls[c].out # NoTokens /\ calls[d].out # NoTokens
        /\ sessions[calls[d].sid].accessToken = calls[d].out.accessToken

\* There is at most one user record per email.
OneUserPerEmail(us) ==
    \A u, v \in Users :
        (us[u] # NoUser /\ us[v] # NoUser /\ us[u].email = us[v].email) => u = v

\* C15: after any interleaving of Register calls there is at most one user
\* record per email; a Register call for an email that a user record holds
\* fails at once with ErrUserAlreadyExists and creates no user, identity or
\* session record, in that step or later.
C15_RegisterOncePerEmail ==
    [][/\ OneUserPerEmail(users')
       /\ \A c \in Calls :
             /\ (/\ calls[c].op = "none" /\ calls'[c].op = "register"
                 /\ \E u \in Users : users[u] # NoUser
                                        /\ users[u].email = calls'[c].email) =>
                   /\ calls'[c].pc = "done"
                   /\ calls'[c].result = ErrUserAlreadyExists
                   /\ calls'[c].out = NoTokens
                   /\ UNCHANGED <<users, identities, sessions>>
             /\ (calls[c].op = "register" /\ calls[c].result = ErrUserAlreadyExists) =>
                   calls'[c] = calls[c]]_vars

\* C15's case: two Register calls for one email ran concurrently; one created
\* the user and the other was refused while the first was still in flight.
C15_Witness ==
    \E c \in Done("register", ErrUserAlreadyExists), d \in CallsOf("register") :
        /\ calls[d].email = calls[c].email /\ calls[d].user # 0
        /\ calls[d].pc = "identity"
        /\ Cardinality({u \in Users : users[u] # NoUser
                                        /\ users[u].email = calls[c].email}) = 1

\* The Gate has handled a call to a method outside its exempt set.
GatedCall == gate.status # "none" /\ gate.method \notin gate.exemptMap

\* The first Authorization value is a scheme, a space and more text, the
\* scheme being "bearer" in any case.
BearerForm(md) ==
    /\ Len(md) > 0
    /\ md[1].spaces >= 1
    /\ md[1].scheme \in {"Bearer", "bearer", "BEARER"}

\* C16: for a call to a non-exempt method with no Authorization value, or
\* whose first Authorization value is not scheme-space-token with the scheme
\* "bearer" in any case, the Gate returns Unauthenticated, does not call the
\* authenticator and never invokes the handler.
C16_MalformedRefused ==
    (GatedCall /\ ~BearerForm(gate.md)) =>
        /\ gate.status = "Unauthenticated"
        /\ gate.handler = <<>>
        /\ gate.auth = <<>>

\* C16's case: a non-exempt call carried a token that verifies under the
\* Gate's secret, but behind the scheme Basic: it was refused.
C16_Witness ==
    /\ GatedCall /\ Len(gate.md) = 1
    /\ gate.md[1].scheme = "Basic" /\ gate.md[1].spaces = 1
    /\ gate.md[1].token = generateToken(1, 1, gate.secret, MaxClock + 1, 0)
    /\ gate.status = "Unauthenticated" /\ gate.handler = <<>>

\* C17: for a call to an exempt method the Gate invokes the handler with the
\* call's context and request as they came, attaches no claims and does not
\* call the authenticator, whatever Authorization value the call carries.
C17_ExemptForwarded ==
    (gate.status # "none" /\ gate.method \in gate.exemptMap) =>
        /\ gate.status = "OK"
        /\ gate.handler = <<[ctx |-> gate.ctx, req |-> gate.req]>>
        /\ gate.handler[1].ctx.claims = <<>>
        /\ gate.auth = <<>>

\* C17's case: an exempt call with a malformed Authorization value went to
\* the handler.
C17_Witness ==
    /\ gate.method \in gate.exemptMap
    /\ Len(gate.md) = 1 /\ gate.md[1].scheme = "Basic" /\ gate.md[1].token = NoJWT
    /\ gate.status = "OK" /\ Len(gate.handler) = 1

\* C18: for a non-exempt call the Gate invokes the handler if and only if the
\* authenticator verified the bearer token; the handler then gets the request
\* as it came and the call's context with the token's claims under
\* UserClaimsKey; on an authenticator error the Gate returns Unauthenticated
\* and invokes no handler.
C18_HandlerIffVerified ==
    GatedCall =>
        LET verified == Len(gate.auth) = 1 /\ gate.auth[1].ok IN
        /\ Len(gate.handler) = 1 <=> verified
        /\ Len(gate.auth) <= 1
        /\ verified =>
              /\ gate.status = "OK"
              /\ gate.auth[1].secret = gate.secret
              /\ gate.auth[1].tokenString.token = gate.md[1].token
              /\ gate.handler[1].req = gate.req
              /\ gate.handler[1].ctx.values = gate.ctx.values
              /\ gate.handler[1].ctx.claims = <<gate.md[1].token.claims>>
        /\ ~verified => gate.status = "Unauthenticated" /\ gate.handler = <<>>

\* C18's case: a non-exempt call was verified and went to the handler with
\* the claims; the token came in with a lower-case scheme.
C18_Witness ==
    /\ GatedCall /\ gate.status = "OK"
    /\ gate.md[1].scheme = "bearer"
    /\ Len(gate.handler) = 1 /\ Len(gate.handler[1].ctx.claims) = 1
    /\ gate.handler[1].ctx.claims[1].userID = 1

\* The secret of the token kind a method expects.
ExpectedSecret(method) ==
    IF method \in {ResetPasswordMethod, ValidatePasswordResetTokenMethod}
    THEN PasswordResetTokenSecret
    ELSE AccessTokenSecret

\* C19: for each non-exempt call the Gate verifies the bearer token with the
\* secret of the token kind expected for the method: the access-token secret
\* for ordinary calls, the password-reset secret for the reset-password and
\* validate-reset-token calls.
C19_SecretOfExpectedKind ==
    (GatedCall /\ Len(gate.auth) = 1) =>
        gate.auth[1].secret = ExpectedSecret(gate.method)

\* What the authenticator was asked, if it was.
Asked == gate.auth[1]
AskedToken == Asked.tokenString.token

\* The conditions on the token that do not concern the not-before claim.
PolicyButNotBefore ==
    /\ Asked.tokenString.lead = 0 /\ AskedToken # NoJWT
    /\ AskedToken.alg = "HS256"
    /\ AskedToken.key = Asked.secret
    /\ AskedToken.claims.exp # Absent /\ Asked.now < AskedToken.claims.exp
    /\ Issuer \in AskedToken.claims.aud
    /\ AskedToken.claims.iss = Issuer

\* C20 as stated: verify succeeds if and only if the token is signed with
\* HS256 under the secret, carries an expiry that has not passed, has a
\* not-before that is not in the future, has the audience and the issuer.
C20_VerifyIffPolicyWithNotBefore ==
    Len(gate.auth) = 1 =>
        (Asked.ok <=>
            /\ PolicyButNotBefore
            /\ AskedToken.claims.nbf # Absent
            /\ AskedToken.claims.nbf <= Asked.now)

\* C20, amended: verify succeeds if and only if the token is signed with
\* HS256 under the secret, carries an expiry later than now, has no
\* not-before or one that is not in the future, has the configured audience
\* among its audiences and the configured issuer; a token without an expiry
\* is always refused.
C20_VerifyIffPolicy ==
    Len(gate.auth) = 1 =>
        /\ Asked.ok <=>
              /\ PolicyButNotBefore
              /\ AskedToken.claims.nbf = Absent \/ AskedToken.claims.nbf <= Asked.now
        /\ AskedToken.claims.exp = Absent => ~Asked.ok
        /\ AskedToken.alg # "HS256" => ~Asked.ok

\* C20's case: a token with no not-before claim, good otherwise, was verified.
C20_Witness ==
    /\ Len(gate.auth) = 1 /\ Asked.ok
    /\ AskedToken.claims.nbf = Absent
    /\ AskedToken.claims.aud = {Issuer, "other"}

\* The scenario's user, and the tokens of the first and the second request.
ScenarioUser == GetUserByEmail(users, trace[1].email)
J1 == trace[2].jti
J2 == trace[3].jti
\* No token of the scenario has expired: the clock has not passed the first
\* token's expiry.
InTime == clock <= trace[2].created.expiresAt

\* What the scenario says of the call that returns as the k-th.
ScenarioStep(k, call) ==
    CASE k = 1 -> call.result = "ok" /\ call.out # NoTokens
      [] k = 2 ->
            /\ call.result = "ok"
            /\ clock <= call.created.expiresAt =>
                  /\ Unused(ScenarioUser) = {call.jti}
                  /\ tokens[call.jti].id = call.created.id
      [] k = 3 ->
            (InTime /\ call.jti # J1) =>
                /\ call.result = "ok"
                /\ tokens[J1].id = trace[2].created.id /\ tokens[J1].used
                /\ Unused(ScenarioUser) = {call.jti}
                /\ tokens[call.jti].id = call.created.id
      [] k = 4 ->
            (InTime /\ trace[3].result = "ok") =>
                /\ call.jti = J1
                /\ call.result = ErrTokenAlreadyUsed
                /\ users[ScenarioUser].passwordHash = HashPassword(trace[1].pw)
      [] k = 5 ->
            (InTime /\ trace[3].result = "ok") =>
                /\ call.jti = J2
                /\ call.result = "ok"
                /\ users[ScenarioUser].passwordHash = HashPassword(call.pw)
                /\ tokens[J2].used
      [] k = 6 ->
            trace[5].result = "ok" =>
                /\ call.pw = trace[5].pw
                /\ call.result = "ok" /\ call.out # NoTokens
      [] k = 7 ->
            trace[5].result = "ok" =>
                /\ call.pw = trace[1].pw /\ call.pw # trace[5].pw
                /\ call.result = ErrInvalidCredentials /\ call.out = NoTokens
      [] OTHER -> TRUE

\* C12: the end-to-end scenario, run sequentially for one user with distinct
\* JTIs and before the first token expires.  Register(email, P0) returns
\* tokens; the first RequestPasswordReset persists one unused token J1; the
\* second marks J1 used and persists unused J2; ResetPassword(J1, P1) fails
\* with ErrTokenAlreadyUsed; ResetPassword(J2, P1) succeeds; afterwards
\* Login(email, P1) succeeds and Login(email, P0) fails with
\* ErrInvalidCredentials.
C12_Scenario ==
    [][Return(1) => ScenarioStep(Len(trace) + 1, calls[1])]_vars

\* C12's case: the seven calls have returned what the scenario says.
C12_Witness ==
    /\ Len(trace) = 7
    /\ trace[1].op = "register" /\ trace[1].result = "ok"
    /\ trace[2].op = "request" /\ trace[2].result = "ok"
    /\ trace[3].op = "request" /\ trace[3].result = "ok" /\ J2 # J1
    /\ trace[4].op = "reset" /\ trace[4].jti = J1
    /\ trace[4].result = ErrTokenAlreadyUsed
    /\ trace[5].op = "reset" /\ trace[5].jti = J2 /\ trace[5].result = "ok"
    /\ trace[6].op = "login" /\ trace[6].result = "ok"
    /\ trace[7].op = "login" /\ trace[7].result = ErrInvalidCredentials

\* C21: the used flag of a reset-token record is monotonic: a record is
\* created with used = false, and no step sets the flag of a record that is
\* in the store back from true to false.
C21_UsedMonotonic ==
    [][/\ \A j \in JTIs :
             (tokens[j] # NoToken /\ tokens'[j].id = tokens[j].id /\ tokens[j].used)
                => tokens'[j].used
       /\ \A j \in JTIs :
             (tokens'[j] # NoToken /\ tokens'[j].id # tokens[j].id)
                => /\ ~tokens'[j].used
                   /\ tokens'[j].id = nextID
                   /\ \E c \in Calls : Issues(c) /\ calls[c].jti = j]_vars

\* C21's case: two ResetPassword calls marked one record, one after the other;
\* the record is in the store, used.
C21_Witness ==
    \E id \in TokenIDs, j \in JTIs :
        /\ Cardinality({c \in Racers(id) : calls[c].result = "ok"}) = 2
        /\ tokens[j].id = id /\ tokens[j].used

\* C22: once its context is cancelled an operation starts no further store or
\* email step and returns a cancellation error: no step of a call whose
\* context is done changes a token record, a user record or the outbox, and
\* the call returns ErrCanceled; a RequestPasswordReset cancelled after its
\* token record was persisted sends no email.
C22_CancelledStops ==
    [][\A c \in Calls :
          (calls[c].ctx = "canceled" /\ Steps(c)) =>
             /\ UNCHANGED <<tokens, users, nextID, outbox>>
             /\ calls'[c].pc = "done" => calls'[c].result = ErrCanceled]_vars


\* The mail of the token that call c generated.
MailOf(c) ==
    [to |-> users[calls[c].user].email, jti |-> calls[c].jti, exp |-> calls[c].jwtExp]

\* C23: RequestPasswordReset for a registered email returns success only from
\* the email send, which follows the persistence of the new unused record,
\* which follows the invalidation of the prior tokens; a step that fails ends
\* the call with an error, having persisted no token (invalidation or
\* persistence failed) and sent no email (any of the three failed), and a call
\* that has returned takes no further step.
C23_SuccessOnlyAfterAllSteps ==
    [][\A c \in Calls :
          (Steps(c) /\ calls'[c].op = "request" /\ calls'[c].user # 0) =>
             /\ calls[c].pc # "done"
             /\ calls'[c].pc = "generate" =>
                   /\ calls[c].pc = "invalidate"
                   /\ tokens' = InvalidateUserTokens(tokens, calls[c].user)
             /\ calls'[c].pc = "create" => calls[c].pc = "generate"
             /\ calls'[c].pc = "send" =>
                   /\ calls[c].pc = "create"
                   /\ tokens[calls[c].jti] = NoToken
                   /\ tokens'[calls[c].jti] = calls'[c].created
                   /\ ~calls'[c].created.used
                   /\ calls'[c].created.userID = calls[c].user
             /\ calls'[c].pc # "send" => UNCHANGED nextID
             /\ (calls'[c].pc = "done" /\ calls'[c].result = "ok") =>
                   /\ calls[c].pc = "send"
                   /\ calls[c].created # NoToken
                   /\ outbox' = outbox \cup {MailOf(c)}
             /\ (calls'[c].pc = "done" /\ calls'[c].result # "ok") =>
                   /\ calls'[c].result = ErrInternal
                   /\ UNCHANGED <<tokens, nextID, outbox>>
                   /\ calls'[c].created = calls[c].created]_vars

\* C23's case: one request has returned success; another one persisted its
\* record, found the mailer failing and returned the error, its mail unsent.
C23_Witness ==
    \E a \in Done("request", "ok"), b \in Done("request", ErrInternal) :
        /\ calls[a].user # 0 /\ MailOf(a) \in outbox
        /\ calls[b].created # NoToken
        /\ MailOf(b) \notin outbox


\* C24: for every session issued by Login or Register the expiry carried by
\* the access token and the access-token expiry stored on the session record
\* are the same instant, the token's issuance time plus the access TTL, and
\* likewise for the refresh token, whenever the clock advances.
C24_StoredExpiryIsTokenExpiry ==
    \A c \in AuthCallsMade :
        (calls[c].pc = "done" /\ calls[c].result = "ok") =>
            LET ses == sessions[calls[c].sid]
                at == calls[c].out.accessToken.claims
                rt == calls[c].out.refreshToken.claims
            IN  /\ at.exp = at.iat + AccessTokenExpiresIn
                /\ rt.exp = rt.iat + RefreshTokenExpiresIn
                /\ ses.accessTokenExpiresAt = at.exp
                /\ ses.refreshTokenExpiresAt = rt.exp


\* C25: no two reset-token records share a JTI: a record is inserted under a
\* JTI only when no record in the store holds that JTI, and a
\* RequestPasswordReset whose generated JTI is held by a record persists no
\* second record for it, leaves the record that holds it as it is, and
\* returns an error.
C25_OneRecordPerJTI ==
    [][/\ \A j \in JTIs :
             (tokens'[j] # NoToken /\ tokens'[j].id # tokens[j].id) =>
                tokens[j] = NoToken
       /\ \A c \in CallsOf("request") :
             (Steps(c) /\ calls[c].pc = "create" /\ tokens[calls[c].jti] # NoToken) =>
                /\ UNCHANGED <<tokens, nextID>>
                /\ calls'[c].pc = "done"
                /\ calls'[c].result = ErrInternal
                /\ calls'[c].created = NoToken]_vars

\* C25's case: a request drew the JTI of a record that another request had
\* persisted; it returned an error and the first record is in the store.
C25_Witness ==
    \E c \in Done("request", ErrInternal), d \in CallsOf("request") :
        /\ c # d /\ calls[d].jti = calls[c].jti
        /\ calls[c].created = NoToken
        /\ calls[d].created # NoToken
        /\ tokens[calls[c].jti] = calls[d].created


\* C26: consuming a reset token is a conditional update on the JTI and
\* used = false, and ResetPassword decides from its effect: a ResetPassword
\* call whose mark-used step changes no record (the record is used already,
\* or is no longer in the store) does not return success.
C26_NoSuccessWithoutChange ==
    [][\A c \in CallsOf("reset") :
          (Steps(c) /\ calls[c].pc = "mark" /\ tokens' = tokens) =>
             calls'[c].result # "ok"]_vars


\* The three failures that the token's state decides.
TokenErrors == {ErrTokenNotFound, ErrTokenAlreadyUsed, ErrTokenExpired}

\* C27: in every store state and at every time ResetPassword(jti, p) fails
\* with ErrTokenNotFound, ErrTokenAlreadyUsed or ErrTokenExpired exactly when
\* ValidatePasswordResetToken(jti) fails in that state, with the same error;
\* a ResetPassword call that fails so changes no password hash and no token
\* record.
C27_ResetFailsAsValidate ==
    [][/\ \A j \in JTIs : ResetNow(j) = ValidateNow(j) /\ ResetNow(j)' = ValidateNow(j)'
       /\ \A c \in CallsOf("reset") :
             (Steps(c) /\ calls[c].pc = "check") =>
                LET v == ValidateStatus(calls[c].snap, clock) IN
                /\ calls'[c].result \in TokenErrors <=> v # "ok"
                /\ v # "ok" =>
                      /\ v \in TokenErrors
                      /\ calls'[c].result = v
                      /\ calls'[c].pc = "done"
                      /\ ~calls'[c].updated
                      /\ UNCHANGED <<users, tokens, nextID>>
       /\ \A c \in CallsOf("reset") :
             (Steps(c) /\ calls'[c].result \in TokenErrors) => calls[c].pc = "check"]_vars

\* C27's case: a ResetPassword and a ValidatePasswordResetToken of one expired
\* token have both returned ErrTokenExpired; the record is in the store as it
\* was and the owner's password hash is the one set at registration.
C27_Witness ==
    \E c \in Done("reset", ErrTokenExpired), d \in Done("validate", ErrTokenExpired) :
        /\ calls[c].snap.id = calls[d].snap.id
        /\ tokens[calls[c].jti] = calls[c].snap
        /\ users[calls[c].snap.userID].passwordHash = HashPassword(0)


\* The session identifiers that the tokens held anywhere refer to: by the
\* calls in flight, in the pairs returned and on the session records.
ReferencedSessions ==
    {t.claims.sessionID :
        t \in {x \in UNION {{calls[c].accessToken, calls[c].refreshToken,
                               calls[c].out.accessToken, calls[c].out.refreshToken} :
                                  c \in Calls}
                        \cup UNION {{sessions[i].accessToken, sessions[i].refreshToken} :
                                        i \in 1..Len(sessions)} : x # NoJWT}}

\* C28: session issuance goes in this order: the session record is created
\* with empty token fields and has its identifier; then the access and the
\* refresh token are minted with that identifier; then both tokens and both
\* expiries are written to the session in one update; then the pair is
\* returned.  Tokens are returned only if that update succeeded, and no token
\* refers to a session identifier that is not in the store.
C28_IssuanceOrder ==
    [][/\ ReferencedSessions' \subseteq 1..Len(sessions')
       /\ \A c \in Calls :
             (Steps(c) /\ calls'[c].op \in {"login", "register"}) =>
                LET sid == calls'[c].sid IN
                /\ calls'[c].pc = "access" =>
                      /\ calls[c].pc = "session"
                      /\ sid = Len(sessions) + 1 /\ Len(sessions') = sid
                      /\ sessions'[sid] =
                            [id |-> sid, userID |-> calls[c].user,
                             accessToken |-> NoJWT, refreshToken |-> NoJWT,
                             accessTokenExpiresAt |-> Absent,
                             refreshTokenExpiresAt |-> Absent]
                      /\ calls'[c].accessToken = NoJWT /\ calls'[c].refreshToken = NoJWT
                /\ calls'[c].pc = "refresh" =>
                      /\ calls[c].pc = "access" /\ calls[c].sid = sid
                      /\ calls'[c].accessToken.claims.sessionID = sid
                      /\ calls'[c].accessToken.key = AccessTokenSecret
                      /\ UNCHANGED sessions
                /\ calls'[c].pc = "stamp" =>
                      /\ calls[c].pc = "refresh" /\ calls[c].sid = sid
                      /\ calls'[c].accessToken = calls[c].accessToken
                      /\ calls'[c].refreshToken.claims.sessionID = sid
                      /\ calls'[c].refreshToken.key = RefreshTokenSecret
                      /\ UNCHANGED sessions
                /\ calls'[c].out # NoTokens =>
                      /\ calls[c].pc = "stamp" /\ calls'[c].pc = "done"
                      /\ calls'[c].result = "ok"
                      /\ calls'[c].out = [accessToken |-> calls[c].accessToken,
                                          refreshToken |-> calls[c].refreshToken]
                      /\ sessions[sid].accessToken = NoJWT
                      /\ sessions' =
                            [sessions EXCEPT
                                ![sid].accessToken = calls[c].accessToken,
                                ![sid].refreshToken = calls[c].refreshToken,
                                ![sid].accessTokenExpiresAt = clock + AccessTokenExpiresIn,
                                ![sid].refreshTokenExpiresAt = clock + RefreshTokenExpiresIn]
                /\ (calls'[c].pc = "done" /\ calls'[c].result = "ok") =>
                      calls'[c].out # NoTokens
                /\ (calls[c].pc = "stamp" /\ sessions' = sessions) =>
                      /\ calls'[c].out = NoTokens
                      /\ calls'[c].result # "ok"]_vars

\* C28's case: one call has returned the pair stamped on its session; another
\* minted its pair, found the update failing and returned the error without
\* tokens, its session record in the store with empty token fields.
C28_Witness ==
    \E c, d \in AuthCallsMade :
        /\ calls[c].pc = "done" /\ calls[c].result = "ok"
        /\ sessions[calls[c].sid].accessToken = calls[c].out.accessToken
        /\ calls[d].pc = "done" /\ calls[d].result = ErrInternal
        /\ calls[d].refreshToken # NoJWT /\ calls[d].out = NoTokens
        /\ sessions[calls[d].sid].accessToken = NoJWT


\* The session records that a step changes.
ChangedSessions == {i \in 1..Len(sessions) : sessions'[i] # sessions[i]}

\* C29: session records are created only by the issuance step of Login and
\* Register, are modified only by the token-stamping update of the issuance
\* that created them, and are never deleted: the collection only grows, and
\* no step of RequestPasswordReset, ResetPassword or
\* ValidatePasswordResetToken and no call through the Gate changes a session
\* record.
C29_SessionsOnlyGrow ==
    [][/\ Len(sessions') >= Len(sessions)
       /\ Len(sessions') # Len(sessions) =>
             /\ ChangedSessions = {}
             /\ \E c \in AuthCallsMade :
                   /\ calls[c].pc = "session" /\ calls'[c].pc = "access"
                   /\ sessions' = Append(sessions, sessions'[calls'[c].sid])
       /\ ChangedSessions # {} =>
             \E c \in AuthCallsMade :
                /\ calls[c].pc = "stamp" /\ calls'[c].pc = "done"
                /\ ChangedSessions = {calls[c].sid}
                /\ sessions'[calls[c].sid].id = calls[c].sid
                /\ sessions'[calls[c].sid].userID = sessions[calls[c].sid].userID
                /\ sessions[calls[c].sid].accessToken = NoJWT
       /\ \A c \in Calls :
             (Steps(c) /\ calls'[c].op \in {"request", "reset", "validate"}) =>
                UNCHANGED sessions
       /\ gate' # gate => UNCHANGED sessions
       /\ tokens' # tokens \/ outbox' # outbox => UNCHANGED sessions]_vars

\* C29's case: a Login added a session and stamped it, a ResetPassword
\* changed the password of the sessions' owner, and the Gate let a call with
\* the new session's access token through; the session that Register left is
\* as it was.
C29_Witness ==
    \E c \in Done("login", "ok"), d \in Done("reset", "ok") :
        /\ calls[d].snap.userID = calls[c].user
        /\ Len(sessions) = 2 /\ calls[c].sid = 2
        /\ sessions[1] = RegisteredSession(1)
        /\ sessions[2].accessToken = calls[c].out.accessToken
        /\ gate.status = "OK" /\ gate.method = OrdinaryMethod
        /\ gate.md = <<[scheme |-> "Bearer", spaces |-> 1,
                        token |-> sessions[2].accessToken]>>


\* C30: Login writes nothing when it fails with ErrInvalidCredentials: no
\* last-login update and no session record, in that step or later.  On valid
\* credentials the last-login update comes before the session is created;
\* if that update fails Login returns the error and creates no session.
C30_LoginWritesInOrder ==
    [][\A c \in Calls :
          (Steps(c) /\ calls'[c].op = "login") =>
             /\ calls'[c].result = ErrInvalidCredentials =>
                   /\ calls[c].op = "none" /\ calls'[c].pc = "done"
                   /\ calls'[c].sid = 0 /\ calls'[c].out = NoTokens
                   /\ UNCHANGED <<identities, sessions, users>>
             /\ calls[c].pc = "done" => FALSE
             /\ calls[c].op = "none" => UNCHANGED <<identities, sessions, users>>
             /\ calls'[c].pc = "session" =>
                   /\ calls[c].pc = "lastlogin" /\ calls[c].sid = 0
                   /\ identities' = UpdateLastLogin(identities, calls[c].user, clock)
                   /\ (\E i \in 1..Len(identities) : identities[i].userID = calls[c].user)
                         => \E i \in 1..Len(identities') :
                               /\ identities'[i].userID = calls[c].user
                               /\ identities'[i].lastLoginAt = clock
                   /\ UNCHANGED sessions
             /\ calls'[c].sid # calls[c].sid =>
                   calls[c].pc = "session" /\ Len(sessions') = Len(sessions) + 1
             /\ (calls[c].pc = "lastlogin" /\ calls'[c].pc = "done") =>
                   /\ calls'[c].result = ErrInternal
                   /\ calls'[c].sid = 0 /\ calls'[c].out = NoTokens
                   /\ UNCHANGED <<identities, sessions>>]_vars

\* C30's case: one Login with a wrong password and one whose last-login
\* update failed have returned their errors; the store holds the session that
\* Register left and no other, and no last-login time.
C30_Witness ==
    \E c \in Done("login", ErrInvalidCredentials), d \in Done("login", ErrInternal) :
        /\ calls[c].user # 0 /\ calls[d].user = calls[c].user
        /\ Len(sessions) = 1
        /\ \A i \in 1..Len(identities) : identities[i].lastLoginAt = Absent


\* The three secrets are pairwise distinct.
DistinctSecrets ==
    /\ AccessTokenSecret # RefreshTokenSecret
    /\ AccessTokenSecret # PasswordResetTokenSecret
    /\ RefreshTokenSecret # PasswordResetTokenSecret

\* C31: with pairwise distinct secrets a token minted for one purpose
\* verifies only under that purpose's secret: a token signed with another
\* secret than the Gate's (a refresh or password-reset token at a Gate with
\* the access-token secret, an access token at a Gate with the reset secret)
\* is refused with Unauthenticated and reaches no handler.
C31_OtherPurposeRejected ==
    /\ DistinctSecrets
    /\ (GatedCall /\ Len(gate.auth) = 1) =>
          /\ Asked.ok => AskedToken.key = gate.secret
          /\ (AskedToken # NoJWT /\ AskedToken.key # gate.secret) =>
                /\ ~Asked.ok
                /\ gate.status = "Unauthenticated"
                /\ gate.handler = <<>>

\* C31's case: a token signed with the password-reset secret, in the bearer
\* form and good at every time, came to a Gate that holds the access-token
\* secret and was refused.
C31_Witness ==
    /\ GatedCall /\ gate.secret = AccessTokenSecret
    /\ Len(gate.md) = 1 /\ gate.md[1].scheme = "Bearer" /\ gate.md[1].spaces = 1
    /\ gate.md[1].token = generateToken(1, 1, PasswordResetTokenSecret, MaxClock + 1, 0)
    /\ Len(gate.auth) = 1 /\ ~Asked.ok
    /\ gate.status = "Unauthenticated"


\* The Gate's handler starts for call c.
HandlerStep(c) == calls[c].op = "none" /\ calls'[c].op # "none"
\* The context the Gate handed to the handler carries no claims, or claims
\* without a jti.
NoJTI ==
    \/ gate.handler[1].ctx.claims = <<>>
    \/ gate.handler[1].ctx.claims[1].jti = 0

\* C32 as stated: if the context carries no claims, or the claims have no
\* jti, the ResetPassword and ValidatePasswordResetToken handlers return
\* Unauthenticated without calling the use case and without changing any
\* token or user record.
C32_NoClaimsUnauthenticated ==
    [][\A c \in Calls :
          (HandlerStep(c) /\ NoJTI) =>
             /\ calls'[c].op = "refused"
             /\ calls'[c].result = Unauthenticated
             /\ UNCHANGED <<tokens, users>>]_vars

\* C32, amended: the handlers obtain the JTI only from the claims the Gate
\* attached to the context: the use case is called only with the jti of those
\* claims.  If the context carries no claims, or the claims have no jti, the
\* handler calls no use case and changes no token or user record; it returns
\* Unauthenticated, except that ResetPassword tests the new password first and
\* returns InvalidArgument when it is empty.
C32_JTIOnlyFromClaims ==
    [][\A c \in Calls :
          /\ (HandlerStep(c) /\ NoJTI) =>
                /\ calls'[c].op = "refused" /\ calls'[c].pc = "done"
                /\ calls'[c].result =
                      IF gate.method = ResetPasswordMethod /\ gate.handler[1].req = Absent
                      THEN InvalidArgument ELSE Unauthenticated
                /\ UNCHANGED <<tokens, users>>
          /\ (HandlerStep(c) /\ calls'[c].op \in {"reset", "validate"}) =>
                /\ gate.method \notin gate.exemptMap
                /\ Len(gate.auth) = 1 /\ gate.auth[1].ok
                /\ gate.handler[1].ctx.claims = <<gate.md[1].token.claims>>
                /\ calls'[c].jti = gate.md[1].token.claims.jti
                /\ calls'[c].jti # 0
                /\ UNCHANGED <<tokens, users>>
          /\ calls[c].op = "refused" => calls'[c] = calls[c]]_vars

\* C32's case: the Gate verified an access token on a ResetPassword call and
\* attached its claims, which have no jti; the handler returned
\* Unauthenticated and the stores are as they were.
C32_Witness ==
    /\ gate.status = "OK" /\ gate.method = ResetPasswordMethod
    /\ gate.method \notin gate.exemptMap
    /\ gate.md = <<[scheme |-> "Bearer", spaces |-> 1,
                    token |-> RegisteredSession(1).accessToken]>>
    /\ gate.handler[1].ctx.claims = <<RegisteredSession(1).accessToken.claims>>
    /\ gate.handler[1].req # Absent
    /\ calls[1].op = "refused" /\ calls[1].result = Unauthenticated
    /\ tokens[1] = NewToken(1, 1, 0)
    /\ users[1].passwordHash = HashPassword(0)


\* C33: password-reset operations for one user do not affect another user:
\* no step of a RequestPasswordReset for user A changes a token record owned
\* by another user or any password hash, and no step of a ResetPassword that
\* read a record owned by A changes another user's record or a token record
\* under another JTI than the one given.
C33_OtherUsersUntouched ==
    [][\A c \in Calls :
          /\ (Steps(c) /\ calls'[c].op = "request") =>
                /\ \A j \in JTIs :
                      (tokens[j] # NoToken /\ tokens[j].userID # calls'[c].user) =>
                         tokens'[j] = tokens[j]
                /\ UNCHANGED users
          /\ (Steps(c) /\ calls'[c].op = "reset") =>
                /\ \A u \in Users : u # calls'[c].snap.userID => users'[u] = users[u]
                /\ \A j \in JTIs : j # calls'[c].jti => tokens'[j] = tokens[j]
                /\ \A u \in Users : users'[u].email = users[u].email]_vars

\* C33's case: both users asked for a reset, the second after the first had
\* its token; the second user reset the password; the first user's token is
\* in the store unused and the first user's password hash is as it was.
C33_Witness ==
    \E a, b \in Done("request", "ok"), r \in Done("reset", "ok") :
        /\ calls[a].user # 0 /\ calls[b].user # 0
        /\ calls[a].user # calls[b].user
        /\ calls[b].created # NoToken
        /\ calls[b].created.id < calls[a].created.id
        /\ calls[r].snap = calls[a].created
        /\ users[calls[a].user].passwordHash = HashPassword(calls[r].pw)
        /\ users[calls[b].user].passwordHash = HashPassword(0)
        /\ tokens[calls[b].jti] = calls[b].created
        /\ tokens[calls[a].jti] = [calls[a].created EXCEPT !.used = TRUE]


\* The access tokens of the session records.
IssuedAccessTokens ==
    {sessions[i].accessToken : i \in 1..Len(sessions)} \ {NoJWT}

\* The Gate's decision on a call that presents the token t now.
GateAccepts(t) ==
    extractAndValidateJWT(<<[scheme |-> "Bearer", spaces |-> 1, token |-> t]>>,
                          gate.secret, clock).err = "nil"

\* C34: no operation revokes an access token, a successful ResetPassword
\* included: a token of a session record that the Gate accepts before a step
\* is accepted after it unless it has expired by then, and the Gate accepts
\* an issued token exactly when it is signed with the Gate's secret and the
\* clock is before its expiry, whatever the users and sessions are.
C34_ResetRevokesNoSession ==
    /\ [][\A t \in IssuedAccessTokens :
            (GateAccepts(t) /\ clock' < t.claims.exp) => GateAccepts(t)']_vars
    /\ [](\A t \in IssuedAccessTokens :
             GateAccepts(t) <=> (t.key = gate.secret /\ clock < t.claims.exp))

\* C34's case: a ResetPassword changed the password of user 1, and the
\* access token of the session user 1 holds since registration, which the
\* Gate let through on a call, is one the Gate accepts now.
C34_Witness ==
    \E d \in Done("reset", "ok") :
        /\ calls[d].snap.userID = 1
        /\ users[1].passwordHash = HashPassword(calls[d].pw)
        /\ users[1].passwordHash # HashPassword(0)
        /\ sessions[1] = RegisteredSession(1)
        /\ GateAccepts(sessions[1].accessToken)
        /\ gate.status = "OK" /\ gate.method = OrdinaryMethod
        /\ gate.md = <<[scheme |-> "Bearer", spaces |-> 1,
                        token |-> sessions[1].accessToken]>>


\* The Register calls that returned an error after their user record was
\* created.
FailedRegisters ==
    {c \in CallsOf("register") :
        calls[c].pc = "done" /\ calls[c].result = ErrInternal}

\* C35: Register is not atomic: when identity creation or session issuance
\* fails after the user record was created, Register returns the error and
\* the user record stays with the given password hash; from then on a
\* Register with that email returns ErrUserAlreadyExists and writes nothing,
\* and a Login with that email and password passes the credential check and
\* never returns ErrInvalidCredentials.
C35_RegisterNotAtomic ==
    /\ [](\A c \in FailedRegisters :
             /\ calls[c].user # 0 /\ calls[c].out = NoTokens
             /\ users[calls[c].user] =
                   [email |-> calls[c].email, passwordHash |-> HashPassword(calls[c].pw)])
    /\ [][\A c \in FailedRegisters, d \in Calls :
            (calls[d].op = "none" /\ calls'[d].email = calls[c].email) =>
               /\ calls'[d].op = "register" =>
                     /\ calls'[d].pc = "done"
                     /\ calls'[d].result = ErrUserAlreadyExists
                     /\ UNCHANGED <<users, identities, sessions>>
               /\ (calls'[d].op = "login" /\ calls'[d].pw = calls[c].pw) =>
                     /\ calls'[d].pc = "lastlogin"
                     /\ calls'[d].user = calls[c].user]_vars
    /\ [](\A c \in FailedRegisters, d \in CallsOf("login") :
             (calls[d].email = calls[c].email /\ calls[d].pw = calls[c].pw
                 /\ calls[d].pc = "done" /\ c < d)
                => calls[d].result \in {"ok", ErrInternal})

\* C35's case: a Register failed at the identity, so its user has a record
\* and no identity, and a later Login with its email and password returned a
\* session for that user.
C35_Witness ==
    \E c \in FailedRegisters, d \in Done("login", "ok") :
        /\ calls[d].email = calls[c].email /\ calls[d].pw = calls[c].pw
        /\ calls[d].user = calls[c].user
        /\ users[calls[c].user].passwordHash = HashPassword(calls[c].pw)
        /\ \A i \in 1..Len(identities) : identities[i].userID # calls[c].user
        /\ calls[c].sid = 0
        /\ sessions[calls[d].sid].userID = calls[c].user
        /\ sessions[calls[d].sid].accessToken = calls[d].out.accessToken


\* The RequestPasswordReset calls whose token record was inserted.
Issued == {c \in CallsOf("request") : calls[c].created # NoToken}

\* C36: the expiresAt on the record of a reset token issued by
\* RequestPasswordReset is never earlier than the expiry inside the signed
\* token, so while the authenticator finds the signed token unexpired,
\* neither ValidatePasswordResetToken nor ResetPassword finds the record
\* expired.
C36_RecordOutlivesSignedToken ==
    \A c \in Issued :
        /\ calls[c].created.expiresAt >= calls[c].jwtExp
        /\ clock < calls[c].jwtExp =>
              \A used \in BOOLEAN :
                 LET tok == [calls[c].created EXCEPT !.used = used] IN
                 /\ ResetPasswordStatus(tok, clock) # ErrTokenExpired
                 /\ ValidateStatus(tok, clock) # ErrTokenExpired

\* C36's case: one request built its record a tick after it minted its
\* signed token, so the record expires later than the token; another's
\* signed token is unexpired and ValidatePasswordResetToken accepted its
\* record.
C36_Witness ==
    \E a, b \in Issued, v \in Done("validate", "ok") :
        /\ calls[a].created.expiresAt > calls[a].jwtExp
        /\ clock < calls[b].jwtExp
        /\ calls[b].pc = "done" /\ calls[b].result = "ok"
        /\ tokens[calls[b].jti] = calls[b].created
        /\ calls[v].snap = calls[b].created

====
